---- MODULE Spec2Model ----
(***************************************************************************)
(* The sensitive-path gate of hal-9000 (hooks/file_access_hook.py) and the *)
(* audit logger it calls (hooks/security_audit.py).                        *)
(*                                                                         *)
(* A Python str is a sequence of one-character strings, so that lower(),   *)
(* normpath(), basename() and the regular expressions are computed and not *)
(* assumed.                                                                *)
(***************************************************************************)
EXTENDS Integers, Sequences, FiniteSets, TLC

(***************************************************************************)
(* str operations                                                          *)
(***************************************************************************)
\* characters a TLA+ string cannot hold, each named: U+0000, U+001B, U+0007,
\* U+007F and the backtick
NUL == "<NUL>"

ESC == "<ESC>"

BEL == "<BEL>"

DEL == "<DEL>"

BACKTICK == "<BACKTICK>"

UpperChars == <<"A","B","C","D","E","F","G","H","I","J","K","L","M","N","O","P","Q","R","S","T","U","V","W","X","Y","Z">>

LowerChars == <<"a","b","c","d","e","f","g","h","i","j","k","l","m","n","o","p","q","r","s","t","u","v","w","x","y","z">>

DigitChars == <<"0","1","2","3","4","5","6","7","8","9">>

CharsOf(s) == {s[i] : i \in 1..Len(s)}

\* str.lower() on one character
LowerChar(c) ==
  IF c \in CharsOf(UpperChars)
    THEN LowerChars[CHOOSE i \in 1..Len(UpperChars) : UpperChars[i] = c]
    ELSE c

\* str.lower()
lower(s) == [i \in 1..Len(s) |-> LowerChar(s[i])]

\* str.startswith
StartsWith(s, t) == Len(t) <= Len(s) /\ SubSeq(s, 1, Len(t)) = t

\* str.endswith
EndsWith(s, t) == Len(t) <= Len(s) /\ SubSeq(s, Len(s) - Len(t) + 1, Len(s)) = t

\* t in s
Contains(s, t) == \E i \in 0..(Len(s) - Len(t)) : SubSeq(s, i + 1, i + Len(t)) = t

\* str.rfind(c) + 1: the position after the last c, or 0
RFind(s, c) ==
  IF \E i \in 1..Len(s) : s[i] = c
    THEN CHOOSE i \in 1..Len(s) : s[i] = c /\ \A j \in (i + 1)..Len(s) : s[j] # c
    ELSE 0

RECURSIVE SplitFrom(_, _, _)
SplitFrom(s, i, acc) ==
  IF i > Len(s) THEN <<acc>>
  ELSE IF s[i] = "/" THEN <<acc>> \o SplitFrom(s, i + 1, <<>>)
  ELSE SplitFrom(s, i + 1, Append(acc, s[i]))

\* path.split('/')
split(s) == SplitFrom(s, 1, <<>>)

RECURSIVE join(_)
\* '/'.join(comps)
join(comps) ==
  IF comps = <<>> THEN <<>>
  ELSE IF Len(comps) = 1 THEN comps[1]
  ELSE comps[1] \o <<"/">> \o join(Tail(comps))

(***************************************************************************)
(* os.path                                                                 *)
(***************************************************************************)
\* os.path.basename: what follows the last slash
basename(p) == SubSeq(p, RFind(p, "/") + 1, Len(p))

RECURSIVE NormComps(_, _, _)
\* the loop of posixpath.normpath over the components
NormComps(comps, new_comps, initial_slashes) ==
  IF comps = <<>> THEN new_comps
  ELSE LET comp == Head(comps) IN
    IF comp = <<>> \/ comp = <<".">>
      THEN NormComps(Tail(comps), new_comps, initial_slashes)
    ELSE IF comp # <<".",".">>
            \/ (initial_slashes = 0 /\ new_comps = <<>>)
            \/ (new_comps # <<>> /\ new_comps[Len(new_comps)] = <<".",".">>)
      THEN NormComps(Tail(comps), Append(new_comps, comp), initial_slashes)
    ELSE IF new_comps # <<>>
      THEN NormComps(Tail(comps), SubSeq(new_comps, 1, Len(new_comps) - 1), initial_slashes)
    ELSE NormComps(Tail(comps), new_comps, initial_slashes)

\* os.path.normpath (posixpath): lexical, the filesystem is not read
normpath(path) ==
  IF path = <<>> THEN <<".">>
  ELSE LET initial_slashes ==
             IF ~StartsWith(path, <<"/">>) THEN 0
             ELSE IF StartsWith(path, <<"/","/">>) /\ ~StartsWith(path, <<"/","/","/">>) THEN 2
             ELSE 1
           body == join(NormComps(split(path), <<>>, initial_slashes))
           res == [i \in 1..initial_slashes |-> "/"] \o body
       IN IF res = <<>> THEN <<".">> ELSE res

\* os.path.dirname of a canonical absolute path
ParentOf(p) ==
  LET k == RFind(p, "/") IN IF k <= 1 THEN <<"/">> ELSE SubSeq(p, 1, k - 1)

\* os.path.join(p, name) for a canonical absolute p
JoinPath(p, name) == IF p = <<"/">> THEN p \o name ELSE p \o <<"/">> \o name

RECURSIVE JoinRealPath(_, _, _, _)
\* posixpath._joinrealpath: walk the components from cur, following each
\* symbolic link of links (a function from canonical paths to link texts)
JoinRealPath(links, cur, comps, fuel) ==
  IF comps = <<>> THEN cur
  ELSE LET name == Head(comps)
           rest == Tail(comps)
       IN IF name = <<>> \/ name = <<".">> THEN JoinRealPath(links, cur, rest, fuel)
          ELSE IF name = <<".",".">> THEN JoinRealPath(links, ParentOf(cur), rest, fuel)
          ELSE LET newpath == JoinPath(cur, name) IN
            IF newpath \in DOMAIN links /\ fuel > 0
              THEN LET target == links[newpath]
                       base == IF StartsWith(target, <<"/">>) THEN <<"/">> ELSE cur
                   IN JoinRealPath(links,
                                   JoinRealPath(links, base, split(target), fuel - 1),
                                   rest, fuel)
              ELSE JoinRealPath(links, newpath, rest, fuel)

\* the longest chain of symbolic links the walk follows
MaxLinkDepth == 3

\* what os.path.normpath / os.path.realpath raise on path: "ValueError" for
\* an embedded null byte, "OSError" when a relative path is made absolute and
\* the working directory is gone (os.getcwd), "none" otherwise
ResolveError(fs, path) ==
  IF NUL \in CharsOf(path) THEN "ValueError"
  ELSE IF ~StartsWith(path, <<"/">>) /\ fs.cwd_gone THEN "OSError"
  ELSE "none"

\* str(e) of the exception of ResolveError
ResolveErrorText(err) ==
  IF err = "ValueError" THEN <<"e","m","b","e","d","d","e","d"," ","n","u","l","l"," ","b","y","t","e">>
  ELSE <<"[","E","r","r","n","o"," ","2","]"," ","N","o"," ","s","u","c","h"," ","f","i","l","e"," ","o","r"," ","d","i","r","e","c","t","o","r","y">>

\* os.path.realpath: absolute, every symbolic link followed
realpath(fs, path) ==
  LET abs == IF StartsWith(path, <<"/">>) THEN path ELSE fs.cwd \o <<"/">> \o path
  IN JoinRealPath(fs.links, <<"/">>, split(abs), MaxLinkDepth)

(***************************************************************************)
(* re: the patterns of the rule tables, each matched as re does            *)
(***************************************************************************)
\* the positions where $ matches: the end, and before a final newline
DollarEnds(s) ==
  {Len(s)} \cup (IF Len(s) > 0 /\ s[Len(s)] = "\n" THEN {Len(s) - 1} ELSE {})

\* what . matches: no newline in s
NoNewline(s) == \A i \in 1..Len(s) : s[i] # "\n"

\* [a-zA-Z0-9_.-]
EnvSuffixChars ==
  CharsOf(LowerChars) \cup CharsOf(UpperChars) \cup CharsOf(DigitChars) \cup {"_", ".", "-"}

\* re.match(r'^.*<lit>$', s)
MatchDotStarSuffix(s, lit) ==
  \E e \in DollarEnds(s) :
    LET t == SubSeq(s, 1, e)
    IN EndsWith(t, lit) /\ NoNewline(SubSeq(t, 1, Len(t) - Len(lit)))

\* re.match(r'^.*<lit>.*\.json$', s)
MatchDotStarInfixJson(s, lit) ==
  \E e \in DollarEnds(s) :
    LET t == SubSeq(s, 1, e)
        body == SubSeq(t, 1, Len(t) - Len(<<".","j","s","o","n">>))
    IN EndsWith(t, <<".","j","s","o","n">>) /\ NoNewline(body) /\ Contains(body, lit)

\* re.match(r'^\.env\.[a-zA-Z0-9_.-]+$', s)
MatchEnvDot(s) ==
  \E e \in DollarEnds(s) :
    LET t == SubSeq(s, 1, e)
    IN /\ StartsWith(t, <<".","e","n","v",".">>)
       /\ Len(t) > Len(<<".","e","n","v",".">>)
       /\ \A i \in (Len(<<".","e","n","v",".">>) + 1)..Len(t) : t[i] \in EnvSuffixChars

\* re.search(r'<lit>$', s)
SearchSuffix(s, lit) == \E e \in DollarEnds(s) : EndsWith(SubSeq(s, 1, e), lit)

\* re.search(r'<lit>.*$', s)
SearchPrefixDotStar(s, lit) ==
  \E i \in 0..(Len(s) - Len(lit)) : \E e \in DollarEnds(s) :
    /\ SubSeq(s, i + 1, i + Len(lit)) = lit
    /\ e >= i + Len(lit)
    /\ NoNewline(SubSeq(s, i + Len(lit) + 1, e))

\* re.search(r'<lit>/?$', s)
SearchSuffixOptSlash(s, lit) == SearchSuffix(s, lit) \/ SearchSuffix(s, lit \o <<"/">>)

(***************************************************************************)
(* CONFIGURATION of file_access_hook.py                                    *)
(***************************************************************************)
HOOK_TIMEOUT == 10

SENSITIVE_FILENAMES ==
  { <<".","e","n","v">>, <<".","e","n","v","r","c">>, <<"c","r","e","d","e","n","t","i","a","l","s",".","j","s","o","n">>, <<"s","e","c","r","e","t","s",".","j","s","o","n">>, <<"i","d","_","r","s","a">>,
    <<"i","d","_","d","s","a">>, <<"i","d","_","e","c","d","s","a">>, <<"i","d","_","e","d","2","5","5","1","9">>, <<".","n","e","t","r","c">>, <<".","n","p","m","r","c">>, <<".","p","y","p","i","r","c">>,
    <<"k","n","o","w","n","_","h","o","s","t","s">>, <<"c","o","n","f","i","g",".","j","s","o","n">>, <<".","p","g","p","a","s","s">>, <<".","m","y",".","c","n","f">>, <<".","p","g","s","e","r","v","i","c","e",".","c","o","n","f">> }

\* each pattern as [re |-> its shape, lit |-> its literal part]
SENSITIVE_FILENAME_PATTERNS ==
  << [re |-> "envdot", lit |-> <<".","e","n","v",".">>],
     [re |-> "infixjson", lit |-> <<"c","r","e","d","e","n","t","i","a","l","s">>],
     [re |-> "infixjson", lit |-> <<"s","e","c","r","e","t","s">>],
     [re |-> "suffix", lit |-> <<".","p","e","m">>],
     [re |-> "suffix", lit |-> <<".","k","e","y">>],
     [re |-> "suffix", lit |-> <<".","p","1","2">>],
     [re |-> "suffix", lit |-> <<".","p","f","x">>],
     [re |-> "suffix", lit |-> <<".","j","k","s">>],
     [re |-> "suffix", lit |-> <<"_","r","s","a">>],
     [re |-> "suffix", lit |-> <<"_","d","s","a">>],
     [re |-> "suffix", lit |-> <<"_","e","c","d","s","a">>],
     [re |-> "suffix", lit |-> <<"_","e","d","2","5","5","1","9">>] >>

SENSITIVE_PATH_PATTERNS ==
  << [re |-> "search_suffix", lit |-> <<".","a","w","s","/","c","r","e","d","e","n","t","i","a","l","s">>],
     [re |-> "search_suffix", lit |-> <<".","a","w","s","/","c","o","n","f","i","g">>],
     [re |-> "search_suffix", lit |-> <<".","k","u","b","e","/","c","o","n","f","i","g">>],
     [re |-> "search_suffix", lit |-> <<".","d","o","c","k","e","r","/","c","o","n","f","i","g",".","j","s","o","n">>],
     [re |-> "search_suffix", lit |-> <<".","s","s","h","/","i","d","_","r","s","a">>],
     [re |-> "search_suffix", lit |-> <<".","s","s","h","/","i","d","_","d","s","a">>],
     [re |-> "search_suffix", lit |-> <<".","s","s","h","/","i","d","_","e","c","d","s","a">>],
     [re |-> "search_suffix", lit |-> <<".","s","s","h","/","i","d","_","e","d","2","5","5","1","9">>],
     [re |-> "search_suffix", lit |-> <<".","s","s","h","/","k","n","o","w","n","_","h","o","s","t","s">>],
     [re |-> "search_dotstar", lit |-> <<".","g","n","u","p","g","/">>],
     [re |-> "search_dotstar", lit |-> <<".","p","a","s","s","w","o","r","d","-","s","t","o","r","e","/">>] >>

\* sensitive_dirs of check_directory_for_sensitive_files
sensitive_dirs ==
  << <<".","a","w","s">>, <<".","s","s","h">>, <<".","g","n","u","p","g">>, <<".","k","u","b","e">>, <<".","d","o","c","k","e","r">>, <<".","p","a","s","s","w","o","r","d","-","s","t","o","r","e">> >>

\* sensitive_glob_patterns of extract_path_from_tool
sensitive_glob_patterns ==
  << <<".","e","n","v">>, <<"s","e","c","r","e","t">>, <<"c","r","e","d","e","n","t","i","a","l">>, <<"p","a","s","s","w","o","r","d">>, <<"k","e","y">>,
     <<".","s","s","h">>, <<".","a","w","s">>, <<".","g","n","u","p","g">>, <<".","k","u","b","e">>, <<".","d","o","c","k","e","r">>,
     <<".","p","g","p","a","s","s">>, <<".","m","y",".","c","n","f">>, <<".","n","e","t","r","c">>, <<".","n","p","m","r","c">>, <<".","p","y","p","i","r","c">>,
     <<"i","d","_","r","s","a">>, <<"i","d","_","e","d","2","5","5","1","9">>, <<"i","d","_","e","c","d","s","a">>, <<"a","u","t","h","o","r","i","z","e","d","_","k","e","y","s">>,
     <<".","g","i","t","-","c","r","e","d","e","n","t","i","a","l","s">>, <<".","b","o","t","o">>, <<"c","r","e","d","e","n","t","i","a","l","s",".","j","s","o","n">> >>

\* re.match(pattern, filename, re.IGNORECASE)
FilenamePatternMatches(pat, filename) ==
  LET s == lower(filename) IN
  IF pat.re = "envdot" THEN MatchEnvDot(s)
  ELSE IF pat.re = "infixjson" THEN MatchDotStarInfixJson(s, pat.lit)
  ELSE MatchDotStarSuffix(s, pat.lit)

\* re.search(pattern, path_lower)
PathPatternMatches(pat, path_lower) ==
  IF pat.re = "search_suffix" THEN SearchSuffix(path_lower, pat.lit)
  ELSE SearchPrefixDotStar(path_lower, pat.lit)

(***************************************************************************)
(* JSON values: [t |-> the Python type, v |-> the content]. A str holds    *)
(* its characters, a dict its items (a function from keys), an int its     *)
(* digits; None and the empty list hold nothing.                           *)
(***************************************************************************)
Str(s) == [t |-> "str", v |-> s]

PyNone == [t |-> "NoneType", v |-> <<>>]

PyInt(digits) == [t |-> "int", v |-> digits]

EmptyList == [t |-> "list", v |-> <<>>]

Dict(items) == [t |-> "dict", v |-> items]

\* bool(x)
Truthy(x) ==
  IF x.t = "int" THEN x.v # <<"0">>
  ELSE IF x.t = "NoneType" THEN FALSE
  ELSE DOMAIN x.v # {}

\* d.get(key, default) on a dict
DictGet(d, key, default) == IF key \in DOMAIN d.v THEN d.v[key] ELSE default

\* type(x).__name__
TypeName(x) ==
  IF x.t = "str" THEN <<"s","t","r">>
  ELSE IF x.t = "int" THEN <<"i","n","t">>
  ELSE IF x.t = "list" THEN <<"l","i","s","t">>
  ELSE IF x.t = "dict" THEN <<"d","i","c","t">>
  ELSE <<"N","o","n","e","T","y","p","e">>

NoExc == [type |-> "none", msg |-> <<>>]

\* AttributeError: '<type>' object has no attribute '<attr>'
AttributeError(x, attr) ==
  [type |-> "AttributeError",
   msg |-> <<"'">> \o TypeName(x) \o <<"'"," ","o","b","j","e","c","t"," ","h","a","s"," ","n","o"," ","a","t","t","r","i","b","u","t","e"," ","'">> \o attr \o <<"'">>]

\* TypeError of os.path on a value that is no str
PathTypeError(x) ==
  [type |-> "TypeError",
   msg |-> <<"e","x","p","e","c","t","e","d"," ","s","t","r",","," ","b","y","t","e","s"," ","o","r"," ","o","s",".","P","a","t","h","L","i","k","e"," ","o","b","j","e","c","t",","," ","n","o","t"," ">> \o TypeName(x)]

(***************************************************************************)
(* security_audit.py: sanitize_log_value and the audit_* functions         *)
(***************************************************************************)
\* [\x00-\x08\x0b\x0c\x0e-\x1f\x7f] among the characters modelled
OtherControlChars == {NUL, ESC, BEL, DEL}

\* [0-9;]
AnsiParamChars == CharsOf(DigitChars) \cup {";"}

\* [A-Za-z]
AnsiFinalChars == CharsOf(LowerChars) \cup CharsOf(UpperChars)

\* the first position from i on whose character is no [0-9;], or Len(s)+1
AnsiParamsEnd(s, i) ==
  IF \E j \in i..Len(s) : s[j] \notin AnsiParamChars
    THEN CHOOSE j \in i..Len(s) :
           s[j] \notin AnsiParamChars /\ \A k \in i..(j - 1) : s[k] \in AnsiParamChars
    ELSE Len(s) + 1

\* whether r'\x1b\[[0-9;]*[A-Za-z]' matches at position i of s
AnsiStartsAt(s, i) ==
  /\ s[i] = ESC
  /\ i + 1 <= Len(s)
  /\ s[i + 1] = "["
  /\ AnsiParamsEnd(s, i + 2) <= Len(s)
  /\ s[AnsiParamsEnd(s, i + 2)] \in AnsiFinalChars

\* whether position k of s lies in a match: a match holds one ESC, its first
\* character, so no match starts inside another and the leftmost scan of
\* re.sub finds every one
InAnsi(s, k) ==
  \E i \in 1..k : AnsiStartsAt(s, i) /\ k <= AnsiParamsEnd(s, i + 2)

\* re.sub(r'\x1b\[[0-9;]*[A-Za-z]', '', value)
StripAnsi(s) ==
  LET indexed == [k \in 1..Len(s) |-> <<k, s[k]>>]
      kept == SelectSeq(indexed, LAMBDA e : ~InAnsi(s, e[1]))
  IN [k \in 1..Len(kept) |-> kept[k][2]]

RECURSIVE Replace(_, _, _)
\* value.replace(c, rep) for a one-character c, by halves
Replace(s, c, rep) ==
  IF s = <<>> THEN <<>>
  ELSE IF Len(s) = 1 THEN (IF s[1] = c THEN rep ELSE s)
  ELSE LET h == Len(s) \div 2
       IN Replace(SubSeq(s, 1, h), c, rep) \o Replace(SubSeq(s, h + 1, Len(s)), c, rep)

\* a last step that removes nothing
KeepControl(s) == s

\* re.sub(r'[\x00-\x08\x0b\x0c\x0e-\x1f\x7f]', '', value)
StripControl(s) == SelectSeq(s, LAMBDA c : c \notin OtherControlChars)

sanitize_log_value(value) ==
  LET v0 == StripAnsi(value)
      v1 == Replace(v0, "\\", <<"\\","\\">>)
      v2 == Replace(v1, "\n", <<"\\","n">>)
      v3 == Replace(v2, "\r", <<"\\","r">>)
      v4 == Replace(v3, "\t", <<"\\","t">>)
      v5 == Replace(v4, "|", <<"\\","|">>)
      v6 == Replace(v5, "\"", <<"\\","\"">>)
  IN StripControl(v6)

\* get_timestamp: the clock is not modelled, its format is
TIMESTAMP == <<"2","0","2","6","-","0","1","-","3","1","T","1","2",":","0","0",":","0","0","Z">>

\* get_worker_id for a process whose WORKER_ID is set
WORKER_ID == <<"w","1">>

\* the arguments of one call of log_security_event
LogCall(event, details, severity) ==
  [event |-> event, details |-> details, severity |-> severity]

\* a log_entry that formats event, severity and worker id as they are given
EntryTextRaw(worker_id, call) ==
  TIMESTAMP \o <<" ","|"," ">> \o call.severity \o <<" ","|"," ">> \o call.event \o <<" ","|"," ","w","o","r","k","e","r","=">>
    \o worker_id \o <<" ">> \o call.details \o <<"\n">>

\* log_entry of log_security_event for the worker id get_worker_id returns:
\* the text handed to f.write
EntryText(worker_id, call) ==
  TIMESTAMP \o <<" ","|"," ">> \o sanitize_log_value(call.severity) \o <<" ","|"," ">>
    \o sanitize_log_value(call.event) \o <<" ","|"," ","w","o","r","k","e","r","=">>
    \o sanitize_log_value(worker_id) \o <<" ">> \o call.details \o <<"\n">>

\* log_entry of log_security_event in the hook process
LogEntry(call) == EntryText(WORKER_ID, call)

audit_hook_deny(tool, file_path, reason) ==
  LET parts1 == <<"t","o","o","l","=">> \o sanitize_log_value(tool)
      parts2 == IF file_path # <<>>
                  THEN parts1 \o <<" ","f","i","l","e","=","\"">> \o sanitize_log_value(file_path) \o <<"\"">>
                  ELSE parts1
      parts3 == IF reason # <<>>
                  THEN parts2 \o <<" ","r","e","a","s","o","n","=","\"">> \o sanitize_log_value(reason) \o <<"\"">>
                  ELSE parts2
  IN LogCall(<<"H","O","O","K","_","D","E","N","Y">>, parts3, <<"W","A","R","N">>)

RECURSIVE DecStr(_)
\* str(n) of a natural number
DecStr(n) == IF n < 10 THEN <<DigitChars[n + 1]>> ELSE DecStr(n \div 10) \o <<DigitChars[(n % 10) + 1]>>

audit_hook_timeout(tool, timeout_seconds) ==
  LogCall(<<"H","O","O","K","_","T","I","M","E","O","U","T">>,
          <<"t","o","o","l","=">> \o sanitize_log_value(tool) \o <<" ","t","i","m","e","o","u","t","_","s","e","c","o","n","d","s","=">>
            \o DecStr(timeout_seconds) \o <<" ","a","c","t","i","o","n","=","d","e","n","i","e","d">>,
          <<"W","A","R","N">>)

audit_hook_error(tool, error) ==
  LogCall(<<"H","O","O","K","_","E","R","R","O","R">>,
          <<"t","o","o","l","=">> \o sanitize_log_value(tool) \o <<" ","e","r","r","o","r","=","\"">>
            \o sanitize_log_value(error) \o <<"\""," ","a","c","t","i","o","n","=","d","e","n","i","e","d">>,
          <<"E","R","R","O","R">>)

audit_secret_access_attempt(tool, file_path) ==
  LogCall(<<"S","E","C","R","E","T","_","A","C","C","E","S","S","_","A","T","T","E","M","P","T">>,
          <<"t","o","o","l","=">> \o sanitize_log_value(tool) \o <<" ","f","i","l","e","=","\"">>
            \o sanitize_log_value(file_path) \o <<"\"">>,
          <<"W","A","R","N">>)

audit_symlink_bypass_attempt(original_path, resolved_path) ==
  LogCall(<<"S","Y","M","L","I","N","K","_","B","Y","P","A","S","S","_","A","T","T","E","M","P","T">>,
          <<"o","r","i","g","i","n","a","l","=","\"">> \o sanitize_log_value(original_path) \o <<"\""," ","r","e","s","o","l","v","e","d","=","\"">>
            \o sanitize_log_value(resolved_path) \o <<"\"">>,
          <<"W","A","R","N">>)

(***************************************************************************)
(* file_access_hook.py: CORE SECURITY LOGIC                                *)
(*                                                                         *)
(* Each function yields [sensitive, reason, calls, raised]: its result,    *)
(* the audit calls it made, in order, and the exception it raised.         *)
(***************************************************************************)
Verdict(sensitive, reason, calls, raised) ==
  [sensitive |-> sensitive, reason |-> reason, calls |-> calls, raised |-> raised]

\* f"Cannot resolve path '{file_path}' (fail-closed): {e}"
CannotResolveReason(file_path, err) ==
  <<"C","a","n","n","o","t"," ","r","e","s","o","l","v","e"," ","p","a","t","h"," ","'">> \o file_path \o <<"'"," ","(","f","a","i","l","-","c","l","o","s","e","d",")",":"," ">> \o ResolveErrorText(err)

\* the three rule tiers of the loop body of is_sensitive_file, on the lowered
\* path, the lowered basename and the text that names the form: the reason of
\* the first tier that matches, or <<>>
TierReason(path_lower, filename, where) ==
  IF filename \in SENSITIVE_FILENAMES
    THEN <<"B","l","o","c","k","e","d",":"," ","'">> \o filename \o <<"'"," ","i","s"," ","a"," ","s","e","n","s","i","t","i","v","e"," ","f","i","l","e">> \o where
  ELSE IF \E i \in 1..Len(SENSITIVE_FILENAME_PATTERNS) :
            FilenamePatternMatches(SENSITIVE_FILENAME_PATTERNS[i], filename)
    THEN <<"B","l","o","c","k","e","d",":"," ","'">> \o filename \o <<"'"," ","m","a","t","c","h","e","s"," ","s","e","n","s","i","t","i","v","e"," ","f","i","l","e"," ","p","a","t","t","e","r","n">> \o where
  ELSE IF \E i \in 1..Len(SENSITIVE_PATH_PATTERNS) :
            PathPatternMatches(SENSITIVE_PATH_PATTERNS[i], path_lower)
    THEN <<"B","l","o","c","k","e","d",":"," ","p","a","t","h"," ","m","a","t","c","h","e","s"," ","s","e","n","s","i","t","i","v","e"," ","p","a","t","t","e","r","n">> \o where
  ELSE <<>>

\* a loop body that compares the basename as it is spelled
MatchTiersAsSpelled(path, path_type) ==
  TierReason(lower(path), basename(path),
             <<" ","(">> \o path_type \o <<":"," ">> \o path \o <<")">>)

\* one turn of the loop of is_sensitive_file
MatchTiers(path, path_type) ==
  TierReason(lower(path), lower(basename(path)),
             <<" ","(">> \o path_type \o <<":"," ">> \o path \o <<")">>)

\* the last reason of hits that is not empty, or <<>>
LastHit(hits) ==
  IF \A i \in 1..Len(hits) : hits[i] = <<>> THEN <<>>
  ELSE hits[CHOOSE i \in 1..Len(hits) :
              hits[i] # <<>> /\ \A j \in (i + 1)..Len(hits) : hits[j] = <<>>]

\* the first reason of hits that is not empty, or <<>>
FirstHit(hits) ==
  IF \A i \in 1..Len(hits) : hits[i] = <<>> THEN <<>>
  ELSE hits[CHOOSE i \in 1..Len(hits) :
              hits[i] # <<>> /\ \A j \in 1..(i - 1) : hits[j] = <<>>]

\* the for loop of is_sensitive_file over paths_to_check: it returns at the
\* first path that matches
CheckPaths(paths_to_check) ==
  FirstHit([i \in 1..Len(paths_to_check) |->
              MatchTiers(paths_to_check[i][1], paths_to_check[i][2])])

\* an except branch that lets an unresolvable path through
FailOpen(file_path, err) ==
  Verdict(FALSE, <<>>, <<>>, NoExc)

\* the except branch of is_sensitive_file: an unresolvable path is sensitive
FailClosed(file_path, err) ==
  Verdict(TRUE, CannotResolveReason(file_path, err), <<>>, NoExc)

\* an audit call made for every path, whether or not its forms differ
SymlinkAuditAlways(original_path, resolved_path, audit_available) ==
  IF audit_available
    THEN <<audit_symlink_bypass_attempt(original_path, resolved_path)>>
    ELSE <<>>

\* the audit call is_sensitive_file makes when the two forms differ
SymlinkAudit(original_path, resolved_path, audit_available) ==
  IF original_path # resolved_path /\ audit_available
    THEN <<audit_symlink_bypass_attempt(original_path, resolved_path)>>
    ELSE <<>>

\* a paths_to_check that keeps both forms when they are equal
BothPaths(original_path, resolved_path) ==
  << <<original_path, <<"o","r","i","g","i","n","a","l"," ","p","a","t","h">>>>,
     <<resolved_path, <<"r","e","s","o","l","v","e","d"," ","p","a","t","h"," ","(","s","y","m","l","i","n","k"," ","t","a","r","g","e","t",")">>>> >>

\* paths_to_check of is_sensitive_file
PathsToCheck(original_path, resolved_path) ==
  IF original_path # resolved_path
    THEN << <<original_path, <<"o","r","i","g","i","n","a","l"," ","p","a","t","h">>>>,
            <<resolved_path, <<"r","e","s","o","l","v","e","d"," ","p","a","t","h"," ","(","s","y","m","l","i","n","k"," ","t","a","r","g","e","t",")">>>> >>
    ELSE << <<original_path, <<"p","a","t","h">>>> >>

\* what is_sensitive_file returns when its loop ends with reason hit (<<>>: no match)
LoopVerdict(hit, calls) == Verdict(hit # <<>>, hit, calls, NoExc)

\* is_sensitive_file once both forms of the path are known
CheckForms(original_path, resolved_path, audit_available) ==
  LoopVerdict(CheckPaths(PathsToCheck(original_path, resolved_path)),
              SymlinkAudit(original_path, resolved_path, audit_available))

is_sensitive_file(fs, audit_available, file_path) ==
  IF ~Truthy(file_path) THEN Verdict(FALSE, <<>>, <<>>, NoExc)
  ELSE IF file_path.t # "str" THEN Verdict(FALSE, <<>>, <<>>, PathTypeError(file_path))
  ELSE IF ResolveError(fs, file_path.v) # "none"
    THEN FailClosed(file_path.v, ResolveError(fs, file_path.v))
  ELSE CheckForms(normpath(file_path.v), realpath(fs, file_path.v), audit_available)

\* the value extract_path_from_tool returns, with the exception it raised
Extracted(value, raised) == [value |-> value, raised |-> raised]

extract_path_from_tool(tool_name, tool_input) ==
  IF /\ tool_input.t # "dict"
     /\ tool_name \in {Str(<<"R","e","a","d">>), Str(<<"W","r","i","t","e">>), Str(<<"E","d","i","t">>), Str(<<"G","r","e","p">>),
                       Str(<<"N","o","t","e","b","o","o","k","E","d","i","t">>)}
    THEN Extracted(PyNone, AttributeError(tool_input, <<"g","e","t">>))
  ELSE IF tool_name \in {Str(<<"R","e","a","d">>), Str(<<"W","r","i","t","e">>), Str(<<"E","d","i","t">>)}
    THEN Extracted(DictGet(tool_input, "file_path", Str(<<>>)), NoExc)
  ELSE IF tool_name = Str(<<"G","r","e","p">>)
    THEN LET path == DictGet(tool_input, "path", Str(<<>>))
             glob_pattern == DictGet(tool_input, "glob", Str(<<>>))
         IN IF Truthy(glob_pattern) /\ glob_pattern.t # "str"
              THEN Extracted(PyNone, AttributeError(glob_pattern, <<"l","o","w","e","r">>))
            ELSE IF Truthy(glob_pattern)
                    /\ \E i \in 1..Len(sensitive_glob_patterns) :
                         Contains(lower(glob_pattern.v), sensitive_glob_patterns[i])
              THEN Extracted(glob_pattern, NoExc)
            ELSE Extracted(IF Truthy(path) THEN path ELSE Str(<<".">>), NoExc)
  ELSE IF tool_name = Str(<<"N","o","t","e","b","o","o","k","E","d","i","t">>)
    THEN Extracted(DictGet(tool_input, "notebook_path", Str(<<>>)), NoExc)
  ELSE Extracted(PyNone, NoExc)

\* check_directory_for_sensitive_files once the directory is resolved and
\* is_sensitive_file has returned file_verdict
DirectoryVerdict(resolved_path, file_verdict) ==
  IF file_verdict.sensitive \/ file_verdict.raised # NoExc THEN file_verdict
  ELSE IF \E i \in 1..Len(sensitive_dirs) :
            SearchSuffixOptSlash(lower(resolved_path), sensitive_dirs[i])
    THEN Verdict(TRUE,
                 <<"B","l","o","c","k","e","d",":"," ","s","e","a","r","c","h","i","n","g"," ","i","n"," ","s","e","n","s","i","t","i","v","e"," ","d","i","r","e","c","t","o","r","y"," ","'">> \o resolved_path \o <<"'">>,
                 file_verdict.calls, NoExc)
  ELSE Verdict(FALSE, <<>>, file_verdict.calls, NoExc)

check_directory_for_sensitive_files(fs, audit_available, dir_path) ==
  IF ~Truthy(dir_path) THEN Verdict(FALSE, <<>>, <<>>, NoExc)
  ELSE IF dir_path.t # "str" THEN Verdict(FALSE, <<>>, <<>>, PathTypeError(dir_path))
  ELSE IF ResolveError(fs, dir_path.v) # "none"
    THEN Verdict(TRUE, CannotResolveReason(dir_path.v, ResolveError(fs, dir_path.v)),
                 <<>>, NoExc)
  ELSE DirectoryVerdict(realpath(fs, dir_path.v),
                        is_sensitive_file(fs, audit_available, dir_path))

\* what check_file_access returns: (decision, reason), the audit calls it
\* made, in order, and the exception it raised instead of returning
Outcome(decision, reason, calls, raised) ==
  [decision |-> decision, reason |-> reason, calls |-> calls, raised |-> raised]

GatedTools ==
  {Str(<<"R","e","a","d">>), Str(<<"W","r","i","t","e">>), Str(<<"E","d","i","t">>), Str(<<"G","r","e","p">>), Str(<<"N","o","t","e","b","o","o","k","E","d","i","t">>)}

\* the remediation text check_file_access adds to the reason of a block
REMEDIATION ==
  <<"\n","\n","T","h","i","s"," ","h","o","o","k"," ","p","r","e","v","e","n","t","s"," ","a","c","c","e","s","s"," ","t","o"," ","s","e","n","s","i","t","i","v","e"," ","f","i","l","e","s"," ","t","h","a","t"," ","m","a","y"," ","c","o","n","t","a","i","n",":","\n">>
  \o <<" "," ","-"," ","A","P","I"," ","k","e","y","s"," ","a","n","d"," ","s","e","c","r","e","t","s"," ","(",".","e","n","v",","," ","c","r","e","d","e","n","t","i","a","l","s",".","j","s","o","n",")","\n">>
  \o <<" "," ","-"," ","C","r","y","p","t","o","g","r","a","p","h","i","c"," ","k","e","y","s"," ","(","*",".","p","e","m",","," ","*",".","k","e","y",","," ","i","d","_","r","s","a",")","\n">>
  \o <<" "," ","-"," ","C","l","o","u","d"," ","c","r","e","d","e","n","t","i","a","l","s"," ","(",".","a","w","s","/","c","r","e","d","e","n","t","i","a","l","s",","," ",".","k","u","b","e","/","c","o","n","f","i","g",")","\n">>
  \o <<" "," ","-"," ","A","u","t","h","e","n","t","i","c","a","t","i","o","n"," ","t","o","k","e","n","s"," ","(",".","n","p","m","r","c",","," ",".","p","y","p","i","r","c",","," ",".","n","e","t","r","c",")","\n","\n">>
  \o <<"N","O","T","E",":"," ","S","y","m","l","i","n","k"," ","b","y","p","a","s","s"," ","i","s"," ","b","l","o","c","k","e","d"," ","-"," ","b","o","t","h"," ","o","r","i","g","i","n","a","l"," ","a","n","d"," ","r","e","s","o","l","v","e","d"," ","p","a","t","h","s"," ","a","r","e"," ","c","h","e","c","k","e","d",".","\n","\n">>
  \o <<"I","f"," ","y","o","u"," ","n","e","e","d"," ","t","o"," ","w","o","r","k"," ","w","i","t","h"," ","t","h","e","s","e"," ","f","i","l","e","s",":","\n">>
  \o <<" "," ","1","."," ","U","s","e"," ","e","n","v","i","r","o","n","m","e","n","t"," ","v","a","r","i","a","b","l","e","s"," ","i","n","s","t","e","a","d"," ","o","f"," ","r","e","a","d","i","n","g"," ","f","i","l","e","s"," ","d","i","r","e","c","t","l","y","\n">>
  \o <<" "," ","2","."," ","A","s","k"," ","t","h","e"," ","u","s","e","r"," ","t","o"," ","p","r","o","v","i","d","e"," ","s","p","e","c","i","f","i","c"," ","n","o","n","-","s","e","n","s","i","t","i","v","e"," ","v","a","l","u","e","s","\n">>
  \o <<" "," ","3","."," ","U","s","e"," ","t","h","e"," ",BACKTICK,"e","n","v","-","s","a","f","e",BACKTICK," ","c","o","m","m","a","n","d"," ","t","o"," ","s","a","f","e","l","y"," ","i","n","s","p","e","c","t"," ",".","e","n","v"," ","f","i","l","e","s">>

\* check_file_access on a candidate: the directory check for Grep, the file
\* check for the other gated tools
Classify(fs, audit_available, tool_name, file_path) ==
  IF tool_name = Str(<<"G","r","e","p">>)
    THEN check_directory_for_sensitive_files(fs, audit_available, file_path)
    ELSE is_sensitive_file(fs, audit_available, file_path)

\* a check_file_access whose return of "block" sits under
\* "if SECURITY_AUDIT_AVAILABLE", with the audit calls
DecideAudited(audit_available, tool_name, file_path, verdict) ==
  IF verdict.raised # NoExc THEN Outcome("", <<>>, verdict.calls, verdict.raised)
  ELSE IF verdict.sensitive /\ audit_available
    THEN Outcome("block", verdict.reason \o REMEDIATION,
                 verdict.calls \o
                   << audit_hook_deny(tool_name.v, file_path.v,
                                      IF verdict.reason # <<>> THEN verdict.reason
                                      ELSE <<"s","e","n","s","i","t","i","v","e"," ","f","i","l","e">>),
                      audit_secret_access_attempt(tool_name.v, file_path.v) >>,
                 NoExc)
  ELSE Outcome("allow", <<>>, verdict.calls, NoExc)

\* a check_file_access that hands full_reason, remediation text included, to
\* audit_hook_deny
DecideFullReason(audit_available, tool_name, file_path, verdict) ==
  IF verdict.raised # NoExc THEN Outcome("", <<>>, verdict.calls, verdict.raised)
  ELSE IF verdict.sensitive
    THEN Outcome("block", verdict.reason \o REMEDIATION,
                 verdict.calls \o
                   (IF audit_available
                      THEN << audit_hook_deny(tool_name.v, file_path.v,
                                              verdict.reason \o REMEDIATION),
                              audit_secret_access_attempt(tool_name.v, file_path.v) >>
                      ELSE <<>>),
                 NoExc)
  ELSE Outcome("allow", <<>>, verdict.calls, NoExc)

\* check_file_access from the verdict on: the audit calls and the reason of a
\* block, or allow
Decide(audit_available, tool_name, file_path, verdict) ==
  IF verdict.raised # NoExc THEN Outcome("", <<>>, verdict.calls, verdict.raised)
  ELSE IF verdict.sensitive
    THEN Outcome("block", verdict.reason \o REMEDIATION,
                 verdict.calls \o
                   (IF audit_available
                      THEN << audit_hook_deny(tool_name.v, file_path.v,
                                              IF verdict.reason # <<>> THEN verdict.reason
                                              ELSE <<"s","e","n","s","i","t","i","v","e"," ","f","i","l","e">>),
                              audit_secret_access_attempt(tool_name.v, file_path.v) >>
                      ELSE <<>>),
                 NoExc)
  ELSE Outcome("allow", <<>>, verdict.calls, NoExc)

\* check_file_access from the extracted candidate on
CheckCandidate(fs, audit_available, tool_name, extracted) ==
  IF extracted.raised # NoExc THEN Outcome("", <<>>, <<>>, extracted.raised)
  ELSE IF ~Truthy(extracted.value) THEN Outcome("allow", <<>>, <<>>, NoExc)
  ELSE Decide(audit_available, tool_name, extracted.value,
              Classify(fs, audit_available, tool_name, extracted.value))

\* a check_file_access that gates on the file_path parameter being present
\* instead of on the name of the tool
CheckToolByInput(fs, audit_available, data, tool_name) ==
  IF tool_name \in GatedTools
    THEN CheckCandidate(fs, audit_available, tool_name,
                        extract_path_from_tool(tool_name,
                                               DictGet(data, "tool_input", Dict(<<>>))))
  ELSE IF DictGet(data, "tool_input", Dict(<<>>)).t = "dict"
    THEN CheckCandidate(fs, audit_available, tool_name,
                        Extracted(DictGet(DictGet(data, "tool_input", Dict(<<>>)),
                                          "file_path", Str(<<>>)), NoExc))
  ELSE Outcome("allow", <<>>, <<>>, NoExc)

\* check_file_access of a request that is a dict, whose tool is tool_name
CheckTool(fs, audit_available, data, tool_name) ==
  IF tool_name \notin GatedTools THEN Outcome("allow", <<>>, <<>>, NoExc)
  ELSE CheckCandidate(fs, audit_available, tool_name,
                      extract_path_from_tool(tool_name,
                                             DictGet(data, "tool_input", Dict(<<>>))))

check_file_access(fs, audit_available, data) ==
  IF data.t # "dict" THEN Outcome("", <<>>, <<>>, AttributeError(data, <<"g","e","t">>))
  ELSE CheckTool(fs, audit_available, data, DictGet(data, "tool_name", Str(<<>>)))

(***************************************************************************)
(* The state of one hook process                                           *)
(***************************************************************************)
VARIABLES
  stdin,          \* what the host wrote: [valid |-> it parses as JSON, data |-> its value]
  fs,             \* the filesystem: [cwd, cwd_gone, links]
  platform,       \* "unix" (SIGALRM) or "windows" (worker thread)
  audit_import,   \* how importing security_audit ends: "ok", "ImportError", "ValueError"
  pc,             \* where the main thread is
  alarm,          \* "unset", "armed", "fired" or "cancelled"
  fired_at,       \* where the alarm fired: [pc, logpc, responses], or NotFired
  stdout,         \* the responses printed, in order
  exit_code,      \* the exit code of the process, Running until it has one
  auditLog,       \* the entries written to security.log, in order
  audit_results,  \* how each call of log_security_event ended, in order: "ok" (True),
                  \* "failed" (False, an error inside) or "interrupted" (False, the alarm)
  outcome,        \* what check_file_access returned or raised
  calls,          \* the audit calls the running function has still to make
  logpc,          \* where log_security_event is: "idle", "try" or "written"
  caught,         \* the exception being handled or propagating
  thread          \* the worker of run_with_threading_timeout

vars ==
  << stdin, fs, platform, audit_import, pc, alarm, fired_at, stdout, exit_code,
     auditLog, audit_results, outcome, calls, logpc, caught, thread >>

\* the state of the calls made to security_audit.py on their own
VARIABLES
  arg,            \* the string handed to the function as an argument
  called,         \* the call made: [fn |-> the function, worker |-> the worker id,
                  \* call |-> the arguments log_security_event got], or NotCalled
  max_log_files,  \* MAX_LOG_FILES
  dir,            \* the log directory: dir[0] the inode of security.log and dir[k]
                  \* that of security.log.k, 0 where there is no such file
  inodes,         \* the files: inodes[n] = [lines |-> the entries written,
                  \* lock |-> the process holding the flock, or 0,
                  \* mode |-> the permissions]
  proc,           \* the call of log_security_event each process is in
  appends         \* the number of calls of log_security_event started

\* the state of the calls made to the monitoring helpers and to the validator
\* of the agent registry
VARIABLES
  monitor,        \* a call of get_recent_security_events: the log it reads, its
                  \* arguments and what it returned
  graph           \* an AgentHandoffGraph: its registry, errors and warnings, and
                  \* what validate returned

toolvars == << monitor, graph >>

logvars == << arg, called, max_log_files, dir, inodes, proc, appends, monitor, graph >>

\* neither a monitoring helper nor the validator is in use
ToolsUnused == monitor = <<>> /\ graph = <<>>

NotCalled == [fn |-> "none", worker |-> <<>>, call |-> LogCall(<<>>, <<>>, <<>>)]

\* no call is made to security_audit.py on its own
LoggerUnused ==
  /\ arg = <<>>
  /\ called = NotCalled
  /\ max_log_files = 0
  /\ dir = <<>>
  /\ inodes = <<>>
  /\ proc = <<>>
  /\ appends = 0
  /\ ToolsUnused

Running == 0 - 1

NotFired == [pc |-> "none", logpc |-> "none", responses |-> 0]

NoOutcome == Outcome("", <<>>, <<>>, NoExc)

NoThread ==
  [pc |-> "unstarted", result |-> NoOutcome, error |-> NoExc,
   timed_out |-> FALSE, deadline_elapsed |-> FALSE]

\* SECURITY_AUDIT_AVAILABLE, set by the import at the top of the module
SECURITY_AUDIT_AVAILABLE == audit_import = "ok"

(***************************************************************************)
(* The inputs: filesystems, path and glob values, requests                 *)
(***************************************************************************)
\* /u/n links to an SSH key, /u/s to a harmless file, /u/d to ~/.ssh
LinkedFs ==
  [cwd |-> <<"/","w">>, cwd_gone |-> FALSE,
   links |-> (<<"/","u","/","n">> :> <<"/","u","/",".","s","s","h","/","i","d","_","r","s","a">>) @@ (<<"/","u","/","s">> :> <<"/","w","/","a",".","t","x","t">>)
               @@ (<<"/","u","/","d">> :> <<".","s","s","h">>)]

\* the working directory is ~/.ssh
SshCwdFs == [cwd |-> <<"/","u","/",".","s","s","h">>, cwd_gone |-> FALSE, links |-> <<>>]

\* the working directory has been removed
GoneCwdFs == [cwd |-> <<"/","w">>, cwd_gone |-> TRUE, links |-> <<>>]

FileSystems == {LinkedFs, SshCwdFs, GoneCwdFs}

\* a parameter of tool_input that is missing
Absent == [t |-> "absent", v |-> <<>>]

PathValues ==
  { Absent, Str(<<>>), PyNone, PyInt(<<"0">>), PyInt(<<"7">>),
    Str(<<"/","u","/","a",".","t","x","t">>), Str(<<"a",".","t","x","t">>), Str(<<"/","u","/",".","E","N","V">>), Str(<<"/","u","/","n">>), Str(<<"/","u","/","s">>),
    Str(<<"/","u","/","d">>), Str(<<"/","u","/",".","s","s","h">>), Str(<<"/","u","/","M","y",".","P","E","M">>), Str(<<"/","u","/",".","a","w","s","/","c","o","n","f","i","g">>),
    Str(<<"/","u","/","a",NUL,"b">>), Str(<<"/","u","/","d","/",".",".","/","a",".","t","x","t">>), Str(<<"/","u","/","d","/","i","d","_","r","s","a">>),
    Str(<<"I","d","_","R","s","a">>), Str(<<"/","w","/","x","/","y","/",".","N","E","T","R","C">>), Str(<<"/","u","/",".","g","n","u","p","g","/","M","y",".","P","E","M">>) }

GlobValues ==
  { Absent, Str(<<"*",".","t","x","t">>), Str(<<"*","k","e","y","b","o","a","r","d","*">>), Str(<<"*","*","/",".","e","n","v">>), Str(<<"*",".","E","N","V">>),
    PyInt(<<"7">>) }

\* a dict of the parameters that are present
Items(keys, value) ==
  [k \in {key \in keys : value[key] # Absent} |-> value[k]]

Request(tool_name, tool_input) ==
  Dict(("tool_name" :> Str(tool_name)) @@ ("tool_input" :> tool_input))

FileRequests ==
  { Request(tool, Dict(Items({"file_path"}, [file_path |-> p]))) :
      tool \in {<<"R","e","a","d">>, <<"W","r","i","t","e">>, <<"E","d","i","t">>}, p \in PathValues }

NotebookRequests ==
  { Request(<<"N","o","t","e","b","o","o","k","E","d","i","t">>, Dict(Items({"notebook_path"}, [notebook_path |-> p]))) :
      p \in PathValues }

GrepRequests ==
  { Request(<<"G","r","e","p">>, Dict(Items({"path", "glob"}, [path |-> p, glob |-> g]))) :
      p \in PathValues, g \in GlobValues }

\* requests the gate does not inspect, and requests of the wrong shape
OtherRequests ==
  { Request(<<"B","a","s","h">>, Dict("command" :> Str(<<"l","s">>))),
    Request(<<"r","e","a","d">>, Dict("file_path" :> Str(<<"/","u","/",".","E","N","V">>))),
    Request(<<"B","a","s","h">>, PyNone),
    Request(<<"R","e","a","d">>, PyNone),
    Request(<<"G","r","e","p">>, EmptyList),
    Dict("tool_name" :> Str(<<"R","e","a","d">>)),
    Dict("tool_name" :> Str(<<"G","r","e","p">>)),
    Dict(<<>>),
    EmptyList }

Requests == FileRequests \cup NotebookRequests \cup GrepRequests \cup OtherRequests

(***************************************************************************)
(* SpecCheck: check_file_access on every request                           *)
(***************************************************************************)
RECURSIVE Written(_, _)
\* the entries of the calls whose append succeeded
Written(cs, results) ==
  IF cs = <<>> THEN <<>>
  ELSE (IF results[1] = "ok" THEN <<LogEntry(cs[1])>> ELSE <<>>)
         \o Written(Tail(cs), Tail(results))

InitCheck ==
  /\ stdin \in {[valid |-> TRUE, data |-> d] : d \in Requests}
  /\ fs \in FileSystems
  /\ platform = "unix"
  /\ audit_import \in {"ok", "ImportError"}
  /\ pc = "call"
  /\ alarm = "unset"
  /\ fired_at = NotFired
  /\ stdout = <<>>
  /\ exit_code = Running
  /\ auditLog = <<>>
  /\ audit_results = <<>>
  /\ outcome = NoOutcome
  /\ calls = <<>>
  /\ logpc = "idle"
  /\ caught = NoExc
  /\ thread = NoThread
  /\ LoggerUnused

\* one call of check_file_access, each of its audit appends succeeding or not
CheckFileAccess ==
  /\ pc = "call"
  /\ \E o \in {check_file_access(fs, SECURITY_AUDIT_AVAILABLE, stdin.data)} :
       /\ outcome' = o
       /\ \E results \in [1..Len(o.calls) -> {"ok", "failed"}] :
            /\ audit_results' = results
            /\ auditLog' = auditLog \o Written(o.calls, results)
  /\ pc' = "returned"
  /\ UNCHANGED << stdin, fs, platform, audit_import, alarm, fired_at, stdout, exit_code,
                  calls, logpc, caught, thread >>
  /\ UNCHANGED logvars

NextCheck == CheckFileAccess

SpecCheck == InitCheck /\ [][NextCheck]_vars

(***************************************************************************)
(* Spec: one run of the hook process, from the import of the module to its *)
(* exit. On "unix" the alarm may fire between any two steps.               *)
(***************************************************************************)
Approve ==
  [decision |-> "approve", permissionDecision |-> "", permissionDecisionReason |-> <<>>]

Deny(reason) ==
  [decision |-> "", permissionDecision |-> "deny", permissionDecisionReason |-> reason]

\* raised by timeout_handler, and by main on the worker-thread path
TimeoutError == [type |-> "TimeoutError", msg |-> <<"H","o","o","k"," ","e","x","e","c","u","t","i","o","n"," ","t","i","m","e","d"," ","o","u","t">>]

\* raised by json.load on stdin that is no JSON
JSONDecodeError ==
  [type |-> "JSONDecodeError", msg |-> <<"E","x","p","e","c","t","i","n","g"," ","v","a","l","u","e",":"," ","l","i","n","e"," ","1"," ","c","o","l","u","m","n"," ","1"," ","(","c","h","a","r"," ","0",")">>]

\* raised by sys.exit(0)
SystemExit == [type |-> "SystemExit", msg |-> <<"0">>]

TIMEOUT_REASON ==
  <<"F","i","l","e"," ","a","c","c","e","s","s"," ","h","o","o","k"," ","t","i","m","e","d"," ","o","u","t"," ","(","f","a","i","l","-","c","l","o","s","e","d",")",".","\n","\n">>
  \o <<"T","h","e"," ","h","o","o","k"," ","c","o","u","l","d"," ","n","o","t"," ","c","o","m","p","l","e","t","e"," ","w","i","t","h","i","n"," ","t","h","e"," ","t","i","m","e"," ","l","i","m","i","t","."," ">>
  \o <<"F","o","r"," ","s","e","c","u","r","i","t","y",","," ","a","c","c","e","s","s"," ","i","s"," ","d","e","n","i","e","d"," ","w","h","e","n"," ","t","h","e"," ","h","o","o","k"," ","c","a","n","n","o","t"," ","v","e","r","i","f","y"," ","s","a","f","e","t","y",".","\n","\n">>
  \o <<"T","h","i","s"," ","m","a","y"," ","h","a","p","p","e","n"," ","w","i","t","h",":","\n">>
  \o <<" "," ","-"," ","V","e","r","y"," ","d","e","e","p"," ","s","y","m","l","i","n","k"," ","c","h","a","i","n","s","\n">>
  \o <<" "," ","-"," ","N","e","t","w","o","r","k","-","m","o","u","n","t","e","d"," ","f","i","l","e","s","y","s","t","e","m","s","\n">>
  \o <<" "," ","-"," ","S","y","s","t","e","m"," ","u","n","d","e","r"," ","h","e","a","v","y"," ","l","o","a","d">>

\* permissionDecisionReason of the except clause that handles e
HandlerReason(e) ==
  IF e.type = "TimeoutError" THEN TIMEOUT_REASON
  ELSE IF e.type = "JSONDecodeError"
    THEN <<"F","i","l","e"," ","a","c","c","e","s","s"," ","h","o","o","k"," ","r","e","c","e","i","v","e","d"," ","i","n","v","a","l","i","d"," ","J","S","O","N"," ","(","f","a","i","l","-","c","l","o","s","e","d",")",":"," ">> \o e.msg
         \o <<"\n","\n","F","o","r"," ","s","e","c","u","r","i","t","y",","," ","a","c","c","e","s","s"," ","i","s"," ","d","e","n","i","e","d"," ","w","h","e","n"," ","t","h","e"," ","h","o","o","k"," ","c","a","n","n","o","t"," ","p","a","r","s","e"," ","t","h","e"," ","r","e","q","u","e","s","t",".">>
  ELSE <<"F","i","l","e"," ","a","c","c","e","s","s"," ","h","o","o","k"," ","e","n","c","o","u","n","t","e","r","e","d"," ","a","n"," ","e","r","r","o","r"," ","(","f","a","i","l","-","c","l","o","s","e","d",")",":"," ">> \o e.msg
       \o <<"\n","\n","F","o","r"," ","s","e","c","u","r","i","t","y",","," ","a","c","c","e","s","s"," ","i","s"," ","d","e","n","i","e","d"," ","w","h","e","n"," ","t","h","e"," ","h","o","o","k"," ","c","a","n","n","o","t"," ","v","e","r","i","f","y"," ","s","a","f","e","t","y",".","\n">>
       \o <<"P","l","e","a","s","e"," ","r","e","p","o","r","t"," ","t","h","i","s"," ","e","r","r","o","r"," ","i","f"," ","i","t"," ","p","e","r","s","i","s","t","s",".">>

\* the audit call of the except clause that handles e
HandlerCall(e) ==
  IF e.type = "TimeoutError" THEN audit_hook_timeout(<<"f","i","l","e","_","a","c","c","e","s","s">>, HOOK_TIMEOUT)
  ELSE IF e.type = "JSONDecodeError"
    THEN audit_hook_error(<<"f","i","l","e","_","a","c","c","e","s","s">>, <<"J","S","O","N"," ","p","a","r","s","e"," ","e","r","r","o","r",":"," ">> \o e.msg)
  ELSE audit_hook_error(<<"f","i","l","e","_","a","c","c","e","s","s">>, e.msg)

\* the requests of the runs of main
MainRequests ==
  { Request(<<"R","e","a","d">>, Dict("file_path" :> Str(<<"/","u","/","a",".","t","x","t">>))),
    Request(<<"R","e","a","d">>, Dict("file_path" :> Str(<<"a",".","t","x","t">>))),
    Request(<<"R","e","a","d">>, Dict("file_path" :> Str(<<"/","u","/",".","E","N","V">>))),
    Request(<<"R","e","a","d">>, Dict("file_path" :> Str(<<"/","u","/","n">>))),
    Request(<<"R","e","a","d">>, Dict("file_path" :> PyInt(<<"7">>))),
    Request(<<"B","a","s","h">>, Dict("command" :> Str(<<"l","s">>))),
    Request(<<"R","e","a","d">>, PyNone),
    EmptyList }

Init ==
  /\ stdin \in {[valid |-> TRUE, data |-> d] : d \in MainRequests}
               \cup {[valid |-> FALSE, data |-> PyNone]}
  /\ fs = LinkedFs
  /\ platform \in {"unix", "windows"}
     \* security_audit imports fcntl, which Windows does not have
  /\ audit_import \in IF platform = "windows" THEN {"ImportError"}
                      ELSE {"ok", "ImportError", "ValueError"}
  /\ pc = "import"
  /\ alarm = "unset"
  /\ fired_at = NotFired
  /\ stdout = <<>>
  /\ exit_code = Running
  /\ auditLog = <<>>
  /\ audit_results = <<>>
  /\ outcome = NoOutcome
  /\ calls = <<>>
  /\ logpc = "idle"
  /\ caught = NoExc
  /\ thread = NoThread
  /\ LoggerUnused

\* the import of security_audit at the top of file_access_hook.py: an
\* ImportError is caught, the ValueError of int() on AUDIT_LOG_MAX_SIZE or
\* AUDIT_LOG_MAX_FILES is not, and ends the process before main is called
ImportAudit ==
  /\ pc = "import"
  /\ IF audit_import = "ValueError"
       THEN pc' = "done" /\ exit_code' = 1
       ELSE pc' = "setup" /\ UNCHANGED exit_code
  /\ UNCHANGED << stdin, fs, platform, audit_import, alarm, fired_at, stdout, auditLog,
                  audit_results, outcome, calls, logpc, caught, thread >>
  /\ UNCHANGED logvars

\* main up to its try: the alarm is armed where there is one
Setup ==
  /\ pc = "setup"
  /\ alarm' = IF platform = "unix" THEN "armed" ELSE alarm
  /\ pc' = IF platform = "unix" THEN "parse" ELSE "thread_start"
  /\ UNCHANGED << stdin, fs, platform, audit_import, fired_at, stdout, exit_code, auditLog,
                  audit_results, outcome, calls, logpc, caught, thread >>
  /\ UNCHANGED logvars

\* an exception e raised in the try block reaches its except clause
EnterHandler(e) ==
  /\ caught' = e
  /\ calls' = IF SECURITY_AUDIT_AVAILABLE THEN <<HandlerCall(e)>> ELSE <<>>
  /\ pc' = IF SECURITY_AUDIT_AVAILABLE THEN "h_audit" ELSE "h_print"

\* data = json.load(sys.stdin)
Parse ==
  /\ pc = "parse"
  /\ IF stdin.valid
       THEN pc' = "check" /\ UNCHANGED << caught, calls >>
       ELSE EnterHandler(JSONDecodeError)
  /\ UNCHANGED << stdin, fs, platform, audit_import, alarm, fired_at, stdout, exit_code,
                  auditLog, audit_results, outcome, logpc, thread >>
  /\ UNCHANGED logvars

\* decision, reason = check_file_access(data), up to its first audit call
Check ==
  /\ pc = "check"
  /\ \E o \in {check_file_access(fs, SECURITY_AUDIT_AVAILABLE, stdin.data)} :
       /\ outcome' = o
       /\ IF o.raised # NoExc THEN EnterHandler(o.raised)
          ELSE /\ calls' = o.calls
               /\ pc' = IF o.calls = <<>> THEN "print" ELSE "audit"
               /\ UNCHANGED caught
  /\ UNCHANGED << stdin, fs, platform, audit_import, alarm, fired_at, stdout, exit_code,
                  auditLog, audit_results, logpc, thread >>
  /\ UNCHANGED logvars

\* log_security_event returns: the caller goes on to its next audit call, or
\* past the last one
CallReturns(how) ==
  /\ audit_results' = Append(audit_results, how)
  /\ calls' = Tail(calls)
  /\ logpc' = "idle"
  /\ pc' = IF Tail(calls) # <<>> THEN pc ELSE IF pc = "audit" THEN "print" ELSE "h_print"

\* log_security_event enters its try
LogEnter ==
  /\ pc \in {"audit", "h_audit"}
  /\ logpc = "idle"
  /\ logpc' = "try"
  /\ UNCHANGED << stdin, fs, platform, audit_import, pc, alarm, fired_at, stdout, exit_code,
                  auditLog, audit_results, outcome, calls, caught, thread >>
  /\ UNCHANGED logvars

\* the entry is written under the lock
LogWrite ==
  /\ logpc = "try"
  /\ auditLog' = Append(auditLog, LogEntry(Head(calls)))
  /\ logpc' = "written"
  /\ UNCHANGED << stdin, fs, platform, audit_import, pc, alarm, fired_at, stdout, exit_code,
                  audit_results, outcome, calls, caught, thread >>
  /\ UNCHANGED logvars

\* mkdir, the rotation, open, flock or write raises: except Exception, return False
LogFail ==
  /\ logpc = "try"
  /\ CallReturns("failed")
  /\ UNCHANGED << stdin, fs, platform, audit_import, alarm, fired_at, stdout, exit_code,
                  auditLog, outcome, caught, thread >>
  /\ UNCHANGED logvars

\* the lock is released, chmod runs (its OSError is passed over): return True
LogReturn ==
  /\ logpc = "written"
  /\ CallReturns("ok")
  /\ UNCHANGED << stdin, fs, platform, audit_import, alarm, fired_at, stdout, exit_code,
                  auditLog, outcome, caught, thread >>
  /\ UNCHANGED logvars

\* the print of the try block
PrintResponse ==
  /\ pc = "print"
  /\ stdout' = Append(stdout, IF outcome.decision = "block" THEN Deny(outcome.reason)
                                                           ELSE Approve)
  /\ pc' = "exit"
  /\ UNCHANGED << stdin, fs, platform, audit_import, alarm, fired_at, exit_code, auditLog,
                  audit_results, outcome, calls, logpc, caught, thread >>
  /\ UNCHANGED logvars

\* the print of an except clause
HandlerPrint ==
  /\ pc = "h_print"
  /\ stdout' = Append(stdout, Deny(HandlerReason(caught)))
  /\ pc' = "h_exit"
  /\ UNCHANGED << stdin, fs, platform, audit_import, alarm, fired_at, exit_code, auditLog,
                  audit_results, outcome, calls, logpc, caught, thread >>
  /\ UNCHANGED logvars

\* sys.exit(0), of the try block or of an except clause: SystemExit is no
\* Exception, and leaves through the finally clause
Exit ==
  /\ pc \in {"exit", "h_exit"}
  /\ caught' = SystemExit
  /\ pc' = "finally"
  /\ UNCHANGED << stdin, fs, platform, audit_import, alarm, fired_at, stdout, exit_code,
                  auditLog, audit_results, outcome, calls, logpc, thread >>
  /\ UNCHANGED logvars

\* a finally clause that leaves the alarm as it is
AlarmKept(a) == a

\* signal.alarm(0): an alarm that is pending is cancelled
AlarmCancelled(a) == IF a = "armed" THEN "cancelled" ELSE a

\* finally: signal.alarm(0), then the exception that is propagating ends the process
Finally ==
  /\ pc = "finally"
  /\ alarm' = AlarmCancelled(alarm)
  /\ pc' = "done"
  /\ exit_code' = IF caught.type = "SystemExit" THEN 0 ELSE 1
  /\ UNCHANGED << stdin, fs, platform, audit_import, fired_at, stdout, auditLog,
                  audit_results, outcome, calls, logpc, caught, thread >>
  /\ UNCHANGED logvars

\* the alarm goes off: timeout_handler raises TimeoutError wherever main is
Fire ==
  /\ alarm = "armed"
  /\ alarm' = "fired"
  /\ fired_at' = [pc |-> pc, logpc |-> logpc, responses |-> Len(stdout)]

\* in the try block, outside log_security_event: except TimeoutError
AlarmInBody ==
  /\ pc \in {"parse", "check", "audit", "print", "exit"}
  /\ logpc = "idle"
  /\ Fire
  /\ EnterHandler(TimeoutError)
  /\ UNCHANGED << stdin, fs, platform, audit_import, stdout, exit_code, auditLog,
                  audit_results, outcome, logpc, thread >>
  /\ UNCHANGED logvars

\* inside the try of log_security_event: its except Exception catches the
\* TimeoutError and the call returns False
AlarmInLog ==
  /\ logpc \in {"try", "written"}
  /\ Fire
  /\ CallReturns("interrupted")
  /\ UNCHANGED << stdin, fs, platform, audit_import, stdout, exit_code, auditLog,
                  outcome, caught, thread >>
  /\ UNCHANGED logvars

\* in an except clause, outside log_security_event: no clause of the same try
\* catches it, it leaves through the finally clause
AlarmInHandler ==
  /\ pc \in {"h_audit", "h_print", "h_exit"}
  /\ logpc = "idle"
  /\ Fire
  /\ caught' = TimeoutError
  /\ calls' = <<>>
  /\ pc' = "finally"
  /\ UNCHANGED << stdin, fs, platform, audit_import, stdout, exit_code, auditLog,
                  audit_results, outcome, logpc, thread >>
  /\ UNCHANGED logvars

\* in the finally clause, before signal.alarm(0)
AlarmInFinally ==
  /\ pc = "finally"
  /\ Fire
  /\ caught' = TimeoutError
  /\ pc' = "done"
  /\ exit_code' = 1
  /\ UNCHANGED << stdin, fs, platform, audit_import, stdout, auditLog, audit_results,
                  outcome, calls, logpc, thread >>
  /\ UNCHANGED logvars

\* run_with_threading_timeout: thread.start()
ThreadStart ==
  /\ pc = "thread_start"
  /\ thread' = [thread EXCEPT !.pc = "parse"]
  /\ pc' = "join"
  /\ UNCHANGED << stdin, fs, platform, audit_import, alarm, fired_at, stdout, exit_code,
                  auditLog, audit_results, outcome, calls, logpc, caught >>
  /\ UNCHANGED logvars

\* the worker, a daemon thread, runs as long as the process does
WorkerRuns == pc # "done"

\* do_check in the worker: data = json.load(sys.stdin); target keeps the exception
WorkerParse ==
  /\ WorkerRuns
  /\ thread.pc = "parse"
  /\ thread' = IF stdin.valid THEN [thread EXCEPT !.pc = "check"]
               ELSE [thread EXCEPT !.pc = "dead", !.error = JSONDecodeError]
  /\ UNCHANGED << stdin, fs, platform, audit_import, pc, alarm, fired_at, stdout, exit_code,
                  auditLog, audit_results, outcome, calls, logpc, caught >>
  /\ UNCHANGED logvars

\* do_check in the worker: return check_file_access(data); target keeps the
\* result or the exception, and the thread ends
WorkerCheck ==
  /\ WorkerRuns
  /\ thread.pc = "check"
  /\ \E o \in {check_file_access(fs, SECURITY_AUDIT_AVAILABLE, stdin.data)} :
       thread' = IF o.raised # NoExc
                   THEN [thread EXCEPT !.pc = "dead", !.error = o.raised]
                   ELSE [thread EXCEPT !.pc = "dead", !.result = o]
  /\ UNCHANGED << stdin, fs, platform, audit_import, pc, alarm, fired_at, stdout, exit_code,
                  auditLog, audit_results, outcome, calls, logpc, caught >>
  /\ UNCHANGED logvars

\* thread.join(timeout) returns because the worker has ended
JoinReturns ==
  /\ pc = "join"
  /\ thread.pc = "dead"
  /\ pc' = "is_alive"
  /\ UNCHANGED << stdin, fs, platform, audit_import, alarm, fired_at, stdout, exit_code,
                  auditLog, audit_results, outcome, calls, logpc, caught, thread >>
  /\ UNCHANGED logvars

\* thread.join(timeout) returns because timeout_seconds have passed
JoinTimesOut ==
  /\ pc = "join"
  /\ thread.pc # "dead"
  /\ thread' = [thread EXCEPT !.deadline_elapsed = TRUE]
  /\ pc' = "is_alive"
  /\ UNCHANGED << stdin, fs, platform, audit_import, alarm, fired_at, stdout, exit_code,
                  auditLog, audit_results, outcome, calls, logpc, caught >>
  /\ UNCHANGED logvars

\* if thread.is_alive(): result[2] = True
IsAlive ==
  /\ pc = "is_alive"
  /\ thread' = [thread EXCEPT !.timed_out = (thread.pc # "dead")]
  /\ pc' = "after_thread"
  /\ UNCHANGED << stdin, fs, platform, audit_import, alarm, fired_at, stdout, exit_code,
                  auditLog, audit_results, outcome, calls, logpc, caught >>
  /\ UNCHANGED logvars

\* main after run_with_threading_timeout: raise on timed_out, raise the
\* worker's error, or take its result
AfterThread ==
  /\ pc = "after_thread"
  /\ IF thread.timed_out THEN EnterHandler(TimeoutError) /\ UNCHANGED outcome
     ELSE IF thread.error # NoExc THEN EnterHandler(thread.error) /\ UNCHANGED outcome
     ELSE outcome' = thread.result /\ pc' = "print" /\ UNCHANGED << caught, calls >>
  /\ UNCHANGED << stdin, fs, platform, audit_import, alarm, fired_at, stdout, exit_code,
                  auditLog, audit_results, logpc, thread >>
  /\ UNCHANGED logvars

Next ==
  \/ ImportAudit
  \/ Setup
  \/ Parse
  \/ Check
  \/ LogEnter
  \/ LogWrite
  \/ LogFail
  \/ LogReturn
  \/ PrintResponse
  \/ HandlerPrint
  \/ Exit
  \/ Finally
  \/ AlarmInBody
  \/ AlarmInLog
  \/ AlarmInHandler
  \/ AlarmInFinally
  \/ ThreadStart
  \/ WorkerParse
  \/ WorkerCheck
  \/ JoinReturns
  \/ JoinTimesOut
  \/ IsAlive
  \/ AfterThread

Spec == Init /\ [][Next]_vars

(***************************************************************************)
(* The request of a run, as check_file_access reads it.                    *)
(***************************************************************************)
ReqTool == DictGet(stdin.data, "tool_name", Str(<<>>))

ReqInput == DictGet(stdin.data, "tool_input", Dict(<<>>))

\* a request check_file_access gates, whose tool_input is an object
GatedRequest == stdin.data.t = "dict" /\ ReqTool \in GatedTools /\ ReqInput.t = "dict"

IsGrep == ReqTool = Str(<<"G","r","e","p">>)

GrepPath == DictGet(ReqInput, "path", Str(<<>>))

GrepGlob == DictGet(ReqInput, "glob", Str(<<>>))

\* the path parameter of the request
RequestedPath ==
  IF IsGrep THEN GrepPath
  ELSE IF ReqTool = Str(<<"N","o","t","e","b","o","o","k","E","d","i","t">>) THEN DictGet(ReqInput, "notebook_path", Str(<<>>))
  ELSE DictGet(ReqInput, "file_path", Str(<<>>))

\* the candidate check_file_access classifies
Candidate == extract_path_from_tool(ReqTool, ReqInput).value

\* p is a non-empty string the filesystem resolves
Resolves(p) == p.t = "str" /\ p.v # <<>> /\ ResolveError(fs, p.v) = "none"

\* no file rule matches this form of a path
SafeForm(path) == MatchTiers(path, <<"p","a","t","h">>) = <<>>

\* the directory rule of check_directory_for_sensitive_files matches path
InSensitiveDir(path) ==
  \E i \in 1..Len(sensitive_dirs) : SearchSuffixOptSlash(lower(path), sensitive_dirs[i])

\* the glob contains one of the substrings extract_path_from_tool looks for
GlobHasSensitiveSubstring ==
  /\ GrepGlob.t = "str"
  /\ \E i \in 1..Len(sensitive_glob_patterns) :
       Contains(lower(GrepGlob.v), sensitive_glob_patterns[i])

\* the audit module is loaded and every append so far has succeeded
AuditWorks ==
  /\ SECURITY_AUDIT_AVAILABLE
  /\ \A i \in 1..Len(audit_results) : audit_results[i] = "ok"

\* the audit log holds the entry of this call
Logged(call) == \E i \in 1..Len(auditLog) : auditLog[i] = LogEntry(call)

\* every response written is a deny, and there is one
OnlyDenied ==
  /\ stdout # <<>>
  /\ \A i \in 1..Len(stdout) : stdout[i].permissionDecision = "deny"

\* the HOOK_TIMEOUT events of the audit log
TimeoutEvents ==
  {i \in 1..Len(auditLog) :
     auditLog[i] = LogEntry(audit_hook_timeout(<<"f","i","l","e","_","a","c","c","e","s","s">>, HOOK_TIMEOUT))}

\* the alarm fired while the try block had not yet printed
FiredBeforeResponse ==
  /\ alarm = "fired"
  /\ fired_at.pc \in {"parse", "check", "audit", "print"}
  /\ fired_at.responses = 0

\* something failed in this run of the hook process
Failure ==
  \/ audit_import = "ValueError"
  \/ alarm = "fired"
  \/ thread.timed_out
  \/ caught.type \notin {"none", "SystemExit"}
  \/ ~stdin.valid
  \/ outcome.raised # NoExc
  \/ thread.error # NoExc

(***************************************************************************)
(* The claims.                                                             *)
(***************************************************************************)

\* C1: on the alarm path, whenever the alarm fires before the try block has
\* written its response (while parsing, classifying, or inside an audit-log
\* append), every response written is a deny, there is one, and, the audit
\* log working, exactly one HOOK_TIMEOUT event is appended.
C1_TimeoutAlwaysDenies ==
  (pc = "done" /\ platform = "unix" /\ FiredBeforeResponse)
    => /\ OnlyDenied
       /\ (SECURITY_AUDIT_AVAILABLE /\ \A i \in 1..Len(audit_results) :
                                         audit_results[i] # "failed")
            => Cardinality(TimeoutEvents) = 1

\* C2: for every gated request whose path is non-sensitive in its normalized
\* form and resolves to a path a file rule matches, the decision is block, the
\* reason cites the resolved target, and a SYMLINK_BYPASS_ATTEMPT event with
\* both forms is in the audit log (the audit log working, the glob a string).
C2_SymlinkToSensitiveBlocked ==
  (/\ pc = "returned"
   /\ GatedRequest
   /\ Resolves(RequestedPath)
   /\ IsGrep => GrepGlob.t = "str"
   /\ AuditWorks
   /\ SafeForm(normpath(RequestedPath.v))
   /\ ~SafeForm(realpath(fs, RequestedPath.v)))
    => /\ outcome.decision = "block"
       /\ Contains(outcome.reason, realpath(fs, RequestedPath.v))
       /\ Logged(audit_symlink_bypass_attempt(normpath(RequestedPath.v),
                                              realpath(fs, RequestedPath.v)))

\* C3: every failure in the hook process (unparseable input, a request or
\* tool_input that is no object, a non-string path, a resolution error, the
\* alarm at any point of main, an invalid audit configuration value) ends with
\* a deny response written and no exception escaping: exit code 0.
C3_EveryFailureDenies ==
  (pc = "done" /\ Failure)
    => /\ \E i \in 1..Len(stdout) : stdout[i].permissionDecision = "deny"
       /\ exit_code = 0

\* C4: for a Grep request whose path parameter is sensitive (a file rule
\* matches one of its forms, or it resolves to a sensitive directory), the
\* decision is block whatever the glob parameter (a string) is.
C4_GrepPathAlwaysChecked ==
  (/\ pc = "returned"
   /\ GatedRequest
   /\ IsGrep
   /\ GrepGlob.t = "str"
   /\ Resolves(GrepPath)
   /\ \/ ~SafeForm(normpath(GrepPath.v))
      \/ ~SafeForm(realpath(fs, GrepPath.v))
      \/ InSensitiveDir(realpath(fs, GrepPath.v)))
    => outcome.decision = "block"

\* C5: every Grep request whose glob contains, case-insensitively, one of the
\* sensitive substrings is blocked, with a reason that holds the glob string.
C5_SensitiveGlobBlocked ==
  (pc = "returned" /\ GatedRequest /\ IsGrep /\ GlobHasSensitiveSubstring)
    => /\ outcome.decision = "block"
       /\ Contains(outcome.reason, GrepGlob.v)

\* C6: when resolving the candidate raises OSError or ValueError, nothing is
\* raised: is_sensitive_file and check_directory_for_sensitive_files both
\* return a sensitive match whose reason says the path cannot be resolved, and
\* the decision is block with that reason.
C6_ResolutionErrorBlocks ==
  (/\ pc = "returned"
   /\ GatedRequest
   /\ IsGrep => GrepGlob.t = "str"
   /\ Candidate.t = "str"
   /\ Candidate.v # <<>>
   /\ ResolveError(fs, Candidate.v) # "none")
    => /\ is_sensitive_file(fs, SECURITY_AUDIT_AVAILABLE, Candidate)
            = Verdict(TRUE,
                      CannotResolveReason(Candidate.v, ResolveError(fs, Candidate.v)),
                      <<>>, NoExc)
       /\ check_directory_for_sensitive_files(fs, SECURITY_AUDIT_AVAILABLE, Candidate)
            = Verdict(TRUE,
                      CannotResolveReason(Candidate.v, ResolveError(fs, Candidate.v)),
                      <<>>, NoExc)
       /\ outcome.raised = NoExc
       /\ outcome.decision = "block"
       /\ outcome.reason
            = CannotResolveReason(Candidate.v, ResolveError(fs, Candidate.v))
                \o REMEDIATION

\* a Read of a path with a NUL in it, which realpath refuses, has been blocked
C6_Witness ==
  /\ pc = "returned"
  /\ GatedRequest
  /\ ReqTool = Str(<<"R","e","a","d">>)
  /\ Candidate.t = "str"
  /\ ResolveError(fs, Candidate.v) = "ValueError"
  /\ outcome.decision = "block"

\* C7: on the worker-thread path, once the join has returned because the
\* deadline elapsed with the worker still running, the response is a deny,
\* whether or not the worker ends afterwards.
C7_ElapsedDeadlineDenies ==
  (pc = "done" /\ platform = "windows" /\ thread.deadline_elapsed) => OnlyDenied

\* C8: every execution of main writes exactly one response and exits with
\* code 0, for every input and every moment at which the alarm may fire.
C8_ExactlyOneResponse ==
  (pc = "done" /\ audit_import # "ValueError")
    => /\ Len(stdout) = 1
       /\ exit_code = 0

\* C9 as stated: for every gated request whose candidate is non-sensitive in
\* both forms, the decision is allow and nothing is appended to the audit log.
C9_AllowLeavesLogUnchanged ==
  (/\ pc = "returned"
   /\ GatedRequest
   /\ IsGrep => GrepGlob.t = "str"
   /\ Resolves(Candidate)
   /\ SafeForm(normpath(Candidate.v))
   /\ SafeForm(realpath(fs, Candidate.v))
   /\ IsGrep => ~InSensitiveDir(realpath(fs, Candidate.v)))
    => /\ outcome.decision = "allow"
       /\ auditLog = <<>>

\* C9, amended: for every gated request whose candidate is non-sensitive in
\* both forms (and, for Grep, resolves to no sensitive directory), the decision
\* is allow; the audit log is unchanged when the two forms are equal, and when
\* they differ it gains one SYMLINK_BYPASS_ATTEMPT event with both forms if
\* the audit module is loaded and the append succeeds, and nothing otherwise.
C9_AllowLogsOnlySymlinkEvent ==
  (/\ pc = "returned"
   /\ GatedRequest
   /\ IsGrep => GrepGlob.t = "str"
   /\ Resolves(Candidate)
   /\ SafeForm(normpath(Candidate.v))
   /\ SafeForm(realpath(fs, Candidate.v))
   /\ IsGrep => ~InSensitiveDir(realpath(fs, Candidate.v)))
    => /\ outcome.decision = "allow"
       /\ outcome.raised = NoExc
       /\ auditLog =
            IF /\ normpath(Candidate.v) # realpath(fs, Candidate.v)
               /\ SECURITY_AUDIT_AVAILABLE
               /\ audit_results = <<"ok">>
              THEN <<LogEntry(audit_symlink_bypass_attempt(normpath(Candidate.v),
                                                           realpath(fs, Candidate.v)))>>
              ELSE <<>>

\* a relative path to a safe file has been allowed, and the event is in the log
C9_Witness ==
  /\ pc = "returned"
  /\ GatedRequest
  /\ Resolves(Candidate)
  /\ SafeForm(normpath(Candidate.v))
  /\ SafeForm(realpath(fs, Candidate.v))
  /\ normpath(Candidate.v) # realpath(fs, Candidate.v)
  /\ outcome.decision = "allow"
  /\ Len(auditLog) = 1

\* C10: the decision returned for a request does not depend on the audit
\* logger: whether the audit module is loaded or not, and whether each append
\* succeeds or fails, check_file_access returns the decision and the reason it
\* returns when the module is loaded, or raises the same exception.
C10_DecisionIndependentOfAudit ==
  pc = "returned"
    => /\ outcome.decision = check_file_access(fs, TRUE, stdin.data).decision
       /\ outcome.reason = check_file_access(fs, TRUE, stdin.data).reason
       /\ outcome.raised = check_file_access(fs, TRUE, stdin.data).raised

\* a sensitive file has been blocked although an append to the audit log failed
C10_Witness ==
  /\ pc = "returned"
  /\ SECURITY_AUDIT_AVAILABLE
  /\ \E i \in 1..Len(audit_results) : audit_results[i] = "failed"
  /\ outcome.decision = "block"

\* C20: for every tool_name outside {Read, Write, Edit, Grep, NotebookEdit},
\* compared exactly, check_file_access returns allow whatever tool_input is
\* (absent, null, an object with a sensitive file_path): nothing is raised, no
\* audit call is made and nothing is written to the audit log.
C20_UngatedToolAllowed ==
  (pc = "returned" /\ stdin.data.t = "dict" /\ ReqTool \notin GatedTools)
    => /\ outcome = Outcome("allow", <<>>, <<>>, NoExc)
       /\ audit_results = <<>>
       /\ auditLog = <<>>

\* a tool named "read", in lower case, has been allowed to read /u/.ENV
C20_Witness ==
  /\ pc = "returned"
  /\ ReqTool = Str(<<"r","e","a","d">>)
  /\ DictGet(ReqInput, "file_path", Str(<<>>)) = Str(<<"/","u","/",".","E","N","V">>)
  /\ outcome.decision = "allow"

\* the relevant parameters of a gated request are all missing or empty
NoParameters ==
  /\ GatedRequest
  /\ RequestedPath \in {Str(<<>>), PyNone}
  /\ IsGrep => GrepGlob \in {Str(<<>>), PyNone}

\* C19: for each gated tool, when its relevant parameters are missing or empty
\* (file_path; notebook_path; both path and glob for Grep), no candidate is
\* checked and the decision is allow, whatever the working directory and the
\* filesystem are.
C19_NoParametersAllowed ==
  (pc = "returned" /\ NoParameters)
    => /\ outcome = Outcome("allow", <<>>, <<>>, NoExc)
       /\ auditLog = <<>>

\* the basename of the path parameter, as it is spelled in the request, is
\* one of the exact names when compared case-insensitively
HasExactName ==
  /\ RequestedPath.t = "str"
  /\ lower(basename(RequestedPath.v)) \in SENSITIVE_FILENAMES

\* C17: for every path whose basename, compared case-insensitively, equals one
\* of the exact names, classification returns sensitive whatever the letter
\* case and the directory components are, for Read, Write, Edit, NotebookEdit
\* (is_sensitive_file) and Grep (check_directory_for_sensitive_files) alike,
\* and the request that has this path as its candidate is blocked.
C17_ExactNameSensitive ==
  (pc = "returned" /\ GatedRequest /\ HasExactName)
    => /\ is_sensitive_file(fs, SECURITY_AUDIT_AVAILABLE, RequestedPath).sensitive
       /\ check_directory_for_sensitive_files(fs, SECURITY_AUDIT_AVAILABLE,
                                              RequestedPath).sensitive
       /\ Classify(fs, SECURITY_AUDIT_AVAILABLE, ReqTool, RequestedPath).raised = NoExc
       /\ Candidate = RequestedPath => outcome.decision = "block"

\* a NotebookEdit of /w/x/y/.NETRC has been blocked
C17_Witness ==
  /\ pc = "returned"
  /\ ReqTool = Str(<<"N","o","t","e","b","o","o","k","E","d","i","t">>)
  /\ RequestedPath = Str(<<"/","w","/","x","/","y","/",".","N","E","T","R","C">>)
  /\ HasExactName
  /\ outcome.decision = "block"

\* the number of the first rule tier that matches a form of a path: 1 the
\* exact names, 2 the filename patterns, 3 the path patterns, 0 for none
TierOf(path) ==
  IF lower(basename(path)) \in SENSITIVE_FILENAMES THEN 1
  ELSE IF \E i \in 1..Len(SENSITIVE_FILENAME_PATTERNS) :
            FilenamePatternMatches(SENSITIVE_FILENAME_PATTERNS[i], lower(basename(path)))
    THEN 2
  ELSE IF \E i \in 1..Len(SENSITIVE_PATH_PATTERNS) :
            PathPatternMatches(SENSITIVE_PATH_PATTERNS[i], lower(path))
    THEN 3
  ELSE 0

\* the reason tier t gives for the form path, named label
ReasonOfTier(t, path, label) ==
  (IF t = 1 THEN <<"B","l","o","c","k","e","d",":"," ","'">> \o lower(basename(path)) \o <<"'"," ","i","s"," ","a"," ","s","e","n","s","i","t","i","v","e"," ","f","i","l","e">>
   ELSE IF t = 2
     THEN <<"B","l","o","c","k","e","d",":"," ","'">> \o lower(basename(path)) \o <<"'"," ","m","a","t","c","h","e","s"," ","s","e","n","s","i","t","i","v","e"," ","f","i","l","e"," ","p","a","t","t","e","r","n">>
   ELSE <<"B","l","o","c","k","e","d",":"," ","p","a","t","h"," ","m","a","t","c","h","e","s"," ","s","e","n","s","i","t","i","v","e"," ","p","a","t","t","e","r","n">>)
    \o <<" ","(">> \o label \o <<":"," ">> \o path \o <<")">>

\* the reason of the earliest match in the order of C18 for a path with the
\* forms original and resolved, grep telling whether the directory patterns
\* apply; <<>> when nothing matches
EarliestReason(original, resolved, grep) ==
  IF TierOf(original) # 0
    THEN ReasonOfTier(TierOf(original), original,
                      IF original = resolved THEN <<"p","a","t","h">> ELSE <<"o","r","i","g","i","n","a","l"," ","p","a","t","h">>)
  ELSE IF original # resolved /\ TierOf(resolved) # 0
    THEN ReasonOfTier(TierOf(resolved), resolved, <<"r","e","s","o","l","v","e","d"," ","p","a","t","h"," ","(","s","y","m","l","i","n","k"," ","t","a","r","g","e","t",")">>)
  ELSE IF grep /\ InSensitiveDir(resolved)
    THEN <<"B","l","o","c","k","e","d",":"," ","s","e","a","r","c","h","i","n","g"," ","i","n"," ","s","e","n","s","i","t","i","v","e"," ","d","i","r","e","c","t","o","r","y"," ","'">> \o resolved \o <<"'">>
  ELSE <<>>

\* C18: classification returns the reason of the first match in a fixed
\* order: exact name, filename pattern, path pattern on the original form; the
\* same three on the resolved form when it differs; then, for a Grep path
\* only, the directory patterns on the resolved form. A candidate matching
\* several tiers or both forms is blocked with the earliest reason, and a
\* candidate matching none is allowed.
C18_EarliestTierReason ==
  (/\ pc = "returned"
   /\ GatedRequest
   /\ IsGrep => GrepGlob.t = "str"
   /\ Resolves(Candidate))
    => /\ is_sensitive_file(fs, SECURITY_AUDIT_AVAILABLE, Candidate).reason
            = EarliestReason(normpath(Candidate.v), realpath(fs, Candidate.v), FALSE)
       /\ check_directory_for_sensitive_files(fs, SECURITY_AUDIT_AVAILABLE, Candidate).reason
            = EarliestReason(normpath(Candidate.v), realpath(fs, Candidate.v), TRUE)
       /\ outcome.reason
            = IF EarliestReason(normpath(Candidate.v), realpath(fs, Candidate.v), IsGrep) = <<>>
                THEN <<>>
                ELSE EarliestReason(normpath(Candidate.v), realpath(fs, Candidate.v), IsGrep)
                       \o REMEDIATION
       /\ outcome.decision
            = IF EarliestReason(normpath(Candidate.v), realpath(fs, Candidate.v), IsGrep) = <<>>
                THEN "allow" ELSE "block"

\* /u/d/id_rsa, which matches two tiers as written and three as resolved to
\* /u/.ssh/id_rsa, has been blocked for its exact name in the original form
C18_Witness ==
  /\ pc = "returned"
  /\ GatedRequest
  /\ Resolves(Candidate)
  /\ normpath(Candidate.v) # realpath(fs, Candidate.v)
  /\ TierOf(normpath(Candidate.v)) = 1
  /\ TierOf(realpath(fs, Candidate.v)) = 1
  /\ PathPatternMatches(SENSITIVE_PATH_PATTERNS[5], lower(realpath(fs, Candidate.v)))
  /\ outcome.decision = "block"
  /\ Contains(outcome.reason, <<"i","s"," ","a"," ","s","e","n","s","i","t","i","v","e"," ","f","i","l","e"," ","(","o","r","i","g","i","n","a","l"," ","p","a","t","h",":"," ","/","u","/","d","/","i","d","_","r","s","a",")">>)

(***************************************************************************)
(* SpecAudit: one call of an audit_* function, or of log_security_event    *)
(* itself, with an argument drawn from the strings made of a few pieces.   *)
(***************************************************************************)
\* the most pieces an argument is made of
MaxPieces == 2

\* the pieces: a letter, the characters sanitize_log_value escapes, an ANSI
\* colour sequence, the two halves of one, and other control characters
Pieces ==
  { <<"a">>, <<"\n">>, <<"\r">>, <<"\t">>, <<"|">>, <<"\"">>, <<"\\">>, <<ESC,"[","1",";","3","1","m">>, <<ESC>>, <<"[","m">>,
    <<NUL>>, <<DEL>> }

RECURSIVE Concat(_)
\* the pieces of a sequence, put together
Concat(pieces) == IF pieces = <<>> THEN <<>> ELSE pieces[1] \o Concat(Tail(pieces))

ArgStrings == {Concat(ps) : ps \in UNION {[1..n -> Pieces] : n \in 0..MaxPieces}}

\* no hook process runs
HookUnused ==
  /\ stdin = [valid |-> TRUE, data |-> PyNone]
  /\ fs = LinkedFs
  /\ platform = "unix"
  /\ audit_import = "ok"
  /\ pc = "unused"
  /\ alarm = "unset"
  /\ fired_at = NotFired
  /\ stdout = <<>>
  /\ exit_code = Running
  /\ auditLog = <<>>
  /\ audit_results = <<>>
  /\ outcome = NoOutcome
  /\ calls = <<>>
  /\ logpc = "idle"
  /\ caught = NoExc
  /\ thread = NoThread

InitAudit ==
  /\ HookUnused
  /\ arg \in ArgStrings
  /\ called = NotCalled
  /\ max_log_files = 0
  /\ dir = <<>>
  /\ inodes = <<>>
  /\ proc = <<>>
  /\ appends = 0
  /\ ToolsUnused

\* the values a parameter takes: the argument, or a harmless word
ArgOr(word) == {arg, word}

\* log_security_event(event, details, severity) called from fn in a process
\* whose worker id is worker_id: the entry is appended, or the append fails
LogSecurityEventFrom(fn, worker_id, call) ==
  /\ called = NotCalled
  /\ called' = [fn |-> fn, worker |-> worker_id, call |-> call]
  /\ \E result \in {"ok", "failed"} :
       /\ audit_results' = <<result>>
       /\ auditLog' = IF result = "ok" THEN <<EntryText(worker_id, call)>> ELSE <<>>
  /\ UNCHANGED << stdin, fs, platform, audit_import, pc, alarm, fired_at, stdout,
                  exit_code, outcome, calls, logpc, caught, thread, arg, max_log_files,
                  dir, inodes, proc, appends >>
  /\ UNCHANGED toolvars

AuditHookDeny ==
  \E tool \in ArgOr(<<"R","e","a","d">>), file_path \in ArgOr(<<>>), reason \in ArgOr(<<>>) :
    LogSecurityEventFrom("audit_hook_deny", WORKER_ID, audit_hook_deny(tool, file_path, reason))

AuditHookTimeout ==
  \E tool \in ArgOr(<<"f","i","l","e","_","a","c","c","e","s","s">>) :
    LogSecurityEventFrom("audit_hook_timeout", WORKER_ID, audit_hook_timeout(tool, HOOK_TIMEOUT))

AuditHookError ==
  \E tool \in ArgOr(<<"f","i","l","e","_","a","c","c","e","s","s">>), error \in ArgOr(<<"b","o","o","m">>) :
    LogSecurityEventFrom("audit_hook_error", WORKER_ID, audit_hook_error(tool, error))

AuditSecretAccessAttempt ==
  \E tool \in ArgOr(<<"R","e","a","d">>), file_path \in ArgOr(<<"/","u","/",".","e","n","v">>) :
    LogSecurityEventFrom("audit_secret_access_attempt", WORKER_ID,
                         audit_secret_access_attempt(tool, file_path))

AuditSymlinkBypassAttempt ==
  \E original_path \in ArgOr(<<"/","u","/","n">>), resolved_path \in ArgOr(<<"/","u","/",".","s","s","h","/","i","d","_","r","s","a">>) :
    LogSecurityEventFrom("audit_symlink_bypass_attempt", WORKER_ID,
                         audit_symlink_bypass_attempt(original_path, resolved_path))

\* log_security_event called by other code than the audit_* functions, in a
\* process whose WORKER_ID may be any string
LogSecurityEvent ==
  \E event \in ArgOr(<<"T","E","S","T","_","E","V","E","N","T">>), details \in ArgOr(<<"t","e","s","t","=","t","r","u","e">>),
     severity \in ArgOr(<<"I","N","F","O">>), worker_id \in ArgOr(WORKER_ID) :
    LogSecurityEventFrom("log_security_event", worker_id, LogCall(event, details, severity))

NextAudit ==
  \/ AuditHookDeny
  \/ AuditHookTimeout
  \/ AuditHookError
  \/ AuditSecretAccessAttempt
  \/ AuditSymlinkBypassAttempt
  \/ LogSecurityEvent

SpecAudit == InitAudit /\ [][NextAudit]_<<vars, logvars>>

\* the bytes 0x00-0x1F and 0x7F among the characters modelled
ControlBytes == {NUL, "\t", "\n", "\r", BEL, ESC, DEL}

\* the number of backslashes that stand right before position k of s
BackslashesBefore(s, k) ==
  Cardinality({j \in 1..(k - 1) : \A i \in j..(k - 1) : s[i] = "\\"})

\* the positions of s that hold the character c, not escaped by a backslash
Unescaped(s, c) ==
  {k \in 1..Len(s) : s[k] = c /\ BackslashesBefore(s, k) % 2 = 0}

\* s is one line: it ends with a newline and holds no other control byte
OneLine(s) ==
  /\ s # <<>>
  /\ s[Len(s)] = "\n"
  /\ \A k \in 1..(Len(s) - 1) : s[k] \notin ControlBytes

\* s has the four fields of an entry: three separating pipes
FourFields(s) == Cardinality(Unescaped(s, "|")) = 3

\* the quotes of s that are not escaped are those that open a value after
\* "=" and as many that close one
QuotesPaired(s) ==
  Cardinality(Unescaped(s, "\""))
    = 2 * Cardinality({k \in 1..(Len(s) - 1) : s[k] = "=" /\ s[k + 1] = "\""})

\* every pipe and double quote of s stands after a backslash
AllEscaped(s) ==
  \A k \in 1..Len(s) : s[k] \in {"|", "\""} => (k > 1 /\ s[k - 1] = "\\")

AuditFunctions ==
  { "audit_hook_deny", "audit_hook_timeout", "audit_hook_error",
    "audit_secret_access_attempt", "audit_symlink_bypass_attempt" }

\* C15: for every string passed as tool, path, reason or error to an audit_*
\* function, the text appended is one logical entry: it ends with a newline
\* and holds no other control byte, every pipe and double quote of the
\* sanitized argument stands after a backslash, and the pipes and quotes of
\* the entry that are not escaped are the three field separators and the
\* quotes around the values.
C15_AuditLineIsOneEntry ==
  (called.fn \in AuditFunctions /\ auditLog # <<>>)
    => /\ Len(auditLog) = 1
       /\ OneLine(auditLog[1])
       /\ AllEscaped(sanitize_log_value(arg))
       /\ FourFields(auditLog[1])
       /\ QuotesPaired(auditLog[1])

\* audit_hook_deny has appended an entry for a path that holds a newline
\* followed by a pipe
C15_Witness ==
  /\ called.fn = "audit_hook_deny"
  /\ arg = <<"\n","|">>
  /\ Contains(called.call.details, <<"f","i","l","e","=","\"","\\","n","\\","|","\"">>)
  /\ Len(auditLog) = 1

\* C16 as stated: log_security_event sanitizes every component it formats,
\* details included, so that for any argument values the text appended is one
\* line with the four pipe-delimited fields.
C16_EveryComponentSanitized ==
  (called.fn = "log_security_event" /\ auditLog # <<>>)
    => /\ OneLine(auditLog[1])
       /\ FourFields(auditLog[1])

\* details holds no control byte and no pipe that is not escaped, as the
\* details the audit_* functions build
CleanDetails(details) ==
  /\ \A k \in 1..Len(details) : details[k] \notin ControlBytes
  /\ Unescaped(details, "|") = {}

\* C16, amended: log_security_event sanitizes event, severity and worker id
\* and formats details as it is given: the entry ends with the details
\* string and a newline, and it is one line with the four pipe-delimited
\* fields whenever details holds no control byte and no unescaped pipe.
C16_DetailsFormattedAsGiven ==
  (called.fn = "log_security_event" /\ auditLog # <<>>)
    => /\ Len(auditLog) = 1
       /\ EndsWith(auditLog[1], called.call.details \o <<"\n">>)
       /\ CleanDetails(called.call.details)
            => (OneLine(auditLog[1]) /\ FourFields(auditLog[1]))

\* log_security_event has appended one line for an event name, a severity and
\* a worker id that hold a newline followed by a pipe
C16_Witness ==
  /\ called.fn = "log_security_event"
  /\ arg = <<"\n","|">>
  /\ called.call.event = arg
  /\ called.call.severity = arg
  /\ called.worker = arg
  /\ called.call.details = <<"t","e","s","t","=","t","r","u","e">>
  /\ Len(auditLog) = 1
  /\ OneLine(auditLog[1])

(***************************************************************************)
(* SpecLog: processes that call log_security_event on one log directory,  *)
(* one system call at a time. Sizes are counted in entries.                *)
(***************************************************************************)
\* the highest suffix of a rotated file
MaxGen == 3

\* the most calls of log_security_event, over all processes
MaxAppends == 2

\* the hook processes that run at the same time
Procs == {1, 2}

Gens == 0..MaxGen

\* MAX_LOG_SIZE, counted in entries
MAX_LOG_SIZE == 2

\* the values of AUDIT_LOG_MAX_FILES
LogFileCounts == {0, 1, 2, 3}

\* an entry written before the processes started
OldLine == [by |-> 0, no |-> 0, locked |-> TRUE]

\* a process that is in no call, and has made none
NoCall ==
  [pc |-> "idle", i |-> 0, fd |-> 0, line |-> 0, pending |-> FALSE, failed |-> FALSE,
   found |-> "none", rotated |-> FALSE, raced |-> FALSE, before |-> <<>>,
   perm |-> "none", result |-> "none"]

\* the permissions a file of the directory may have: what the code sets, and
\* the broader ones open(log_path, 'a') creates with under the umask 022
Mode0640 == "0640"
Mode0644 == "0644"

\* a directory earlier processes left: security.log with n entries (none: no
\* file) and the rotated files .1 to .g, the higher the suffix the older
InitialDir(g, n) ==
  [k \in Gens |-> IF k = 0 THEN (IF n > 0 THEN g + 1 ELSE 0)
                  ELSE IF k <= g THEN g + 1 - k ELSE 0]

\* its files: security.log has the mode m, the rotated files 0640
InitialInodes(g, n, m) ==
  [j \in 1..(g + (IF n > 0 THEN 1 ELSE 0)) |->
     [lines |-> [x \in 1..(IF j = g + 1 THEN n ELSE MAX_LOG_SIZE) |-> OldLine],
      lock |-> 0,
      mode |-> IF j = g + 1 THEN m ELSE Mode0640]]

InitLog ==
  /\ HookUnused
  /\ arg = <<>>
  /\ called = NotCalled
  /\ max_log_files \in LogFileCounts
  /\ \E g \in {0, max_log_files}, n \in 0..MAX_LOG_SIZE, m \in {Mode0640, Mode0644} :
       /\ dir = InitialDir(g, n)
       /\ inodes = InitialInodes(g, n, m)
  /\ proc = [p \in Procs |-> NoCall]
  /\ appends = 0
  /\ ToolsUnused

\* Path.exists() of security.log (k = 0) or security.log.k
Exists(k) == dir[k] # 0

\* an except clause that is missing: the OSError goes on to the except
\* Exception of log_security_event
NoHandler(call) == [call EXCEPT !.pc = "except", !.raced = TRUE]

\* "except OSError: pass" (or return) around a system call that failed: the
\* call goes on as call says
HandleOSError(call) == [call EXCEPT !.raced = TRUE]

\* the for loop of rotate_log_if_needed goes to its next turn, or ends
Iterate(call) ==
  IF call.i > 1 THEN [call EXCEPT !.pc = "loop", !.i = call.i - 1]
  ELSE [call EXCEPT !.pc = "rename", !.i = 0]

\* a loop body that renames the oldest file like the others
RenamedDir(d, i, oldest) == [d EXCEPT ![i + 1] = d[i], ![i] = 0]

\* the directory after the body of the loop for security.log.i: the oldest
\* file is unlinked, another is renamed to the next suffix
ShiftedDir(d, i, oldest) ==
  IF i = oldest THEN [d EXCEPT ![i] = 0]
  ELSE [d EXCEPT ![i + 1] = d[i], ![i] = 0]

\* the files after process p has written its entry to the file it has open
Appended(p) ==
  [inodes EXCEPT ![proc[p].fd].lines =
     Append(@, [by |-> p, no |-> proc[p].line,
                locked |-> inodes[proc[p].fd].lock = p])]

\* log_security_event up to log_path.exists() of rotate_log_if_needed
StartAppend(p) ==
  /\ proc[p].pc = "idle"
  /\ appends < MaxAppends
  /\ appends' = appends + 1
  /\ proc' = [proc EXCEPT ![p] =
                [NoCall EXCEPT !.pc = IF Exists(0) THEN "stat" ELSE "exists",
                               !.found = IF Exists(0) THEN "none" ELSE "absent",
                               !.line = appends + 1]]
  /\ UNCHANGED << vars, arg, called, max_log_files, dir, inodes >>
  /\ UNCHANGED toolvars

\* log_path.stat().st_size < MAX_LOG_SIZE, and the start of the loop
Stat(p) ==
  /\ proc[p].pc = "stat"
  /\ proc' = [proc EXCEPT ![p] =
       IF ~Exists(0)
         THEN HandleOSError([proc[p] EXCEPT !.pc = "exists", !.found = "gone"])
       ELSE IF Len(inodes[dir[0]].lines) < MAX_LOG_SIZE
         THEN [proc[p] EXCEPT !.pc = "exists", !.found = "small"]
       ELSE [proc[p] EXCEPT !.pc = IF max_log_files - 1 >= 1 THEN "loop" ELSE "rename",
                            !.i = IF max_log_files - 1 >= 1 THEN max_log_files - 1 ELSE 0,
                            !.found = "full",
                            !.before = dir]]
  /\ UNCHANGED << vars, arg, called, max_log_files, dir, inodes, appends >>
  /\ UNCHANGED toolvars

\* current.exists() in the loop
LoopExists(p) ==
  /\ proc[p].pc = "loop"
  /\ proc' = [proc EXCEPT ![p] =
       IF Exists(proc[p].i) THEN [proc[p] EXCEPT !.pc = "shift"] ELSE Iterate(proc[p])]
  /\ UNCHANGED << vars, arg, called, max_log_files, dir, inodes, appends >>
  /\ UNCHANGED toolvars

\* current.unlink() or current.rename(next_file) in the loop
Shift(p) ==
  /\ proc[p].pc = "shift"
  /\ IF Exists(proc[p].i)
       THEN /\ dir' = ShiftedDir(dir, proc[p].i, max_log_files - 1)
            /\ proc' = [proc EXCEPT ![p] = Iterate(proc[p])]
       ELSE /\ proc' = [proc EXCEPT ![p] = HandleOSError(Iterate(proc[p]))]
            /\ UNCHANGED dir
  /\ UNCHANGED << vars, arg, called, max_log_files, inodes, appends >>
  /\ UNCHANGED toolvars

\* log_path.rename(security.log.1), and the return of rotate_log_if_needed
Rename(p) ==
  /\ proc[p].pc = "rename"
  /\ IF Exists(0)
       THEN /\ dir' = [dir EXCEPT ![1] = dir[0], ![0] = 0]
            /\ proc' = [proc EXCEPT ![p] = [proc[p] EXCEPT !.pc = "exists", !.rotated = TRUE]]
       ELSE /\ proc' = [proc EXCEPT ![p] = HandleOSError([proc[p] EXCEPT !.pc = "exists"])]
            /\ UNCHANGED dir
  /\ UNCHANGED << vars, arg, called, max_log_files, inodes, appends >>
  /\ UNCHANGED toolvars

\* "if not log_path.exists()" of log_security_event
ExistsLog(p) ==
  /\ proc[p].pc = "exists"
  /\ proc' = [proc EXCEPT ![p] =
                [proc[p] EXCEPT !.pc = IF Exists(0) THEN "open" ELSE "create",
                                !.before = <<>>]]
  /\ UNCHANGED << vars, arg, called, max_log_files, dir, inodes, appends >>
  /\ UNCHANGED toolvars

\* os.open(log_path, O_WRONLY | O_CREAT | O_EXCL, 0o640)
Create(p) ==
  /\ proc[p].pc = "create"
  /\ IF Exists(0)
       THEN /\ proc' = [proc EXCEPT ![p] = HandleOSError([proc[p] EXCEPT !.pc = "open"])]
            /\ UNCHANGED << dir, inodes >>
       ELSE /\ inodes' = Append(inodes, [lines |-> <<>>, lock |-> 0, mode |-> Mode0640])
            /\ dir' = [dir EXCEPT ![0] = Len(inodes) + 1]
            /\ proc' = [proc EXCEPT ![p].pc = "open"]
  /\ UNCHANGED << vars, arg, called, max_log_files, appends >>
  /\ UNCHANGED toolvars

\* open(log_path, 'a'): the file is created if it is not there
Open(p) ==
  /\ proc[p].pc = "open"
  /\ IF Exists(0)
       THEN /\ proc' = [proc EXCEPT ![p] =
                          [proc[p] EXCEPT !.pc = "lock", !.fd = dir[0],
                                          !.perm = inodes[dir[0]].mode]]
            /\ UNCHANGED << dir, inodes >>
       ELSE /\ inodes' = Append(inodes, [lines |-> <<>>, lock |-> 0, mode |-> Mode0644])
            /\ dir' = [dir EXCEPT ![0] = Len(inodes) + 1]
            /\ proc' = [proc EXCEPT ![p] =
                          [proc[p] EXCEPT !.pc = "lock", !.fd = Len(inodes) + 1,
                                          !.perm = Mode0644]]
  /\ UNCHANGED << vars, arg, called, max_log_files, appends >>
  /\ UNCHANGED toolvars

\* the files once process p holds the lock on the file it has open
Locked(p) == [inodes EXCEPT ![proc[p].fd].lock = p]

\* fcntl.flock(f.fileno(), LOCK_EX), which waits while another process holds
\* the lock on the file, and f.write(log_entry) on the buffered text file:
\* an entry smaller than the buffer stays in it, a bigger one is written to the
\* file at once, or fails to be
LockWrite(p) ==
  /\ proc[p].pc = "lock"
  /\ inodes[proc[p].fd].lock = 0
  /\ \E how \in {"buffered", "written", "failed"} :
       /\ inodes' = IF how = "written"
                      THEN [Locked(p) EXCEPT ![proc[p].fd].lines =
                              Append(@, [by |-> p, no |-> proc[p].line, locked |-> TRUE])]
                      ELSE Locked(p)
       /\ proc' = [proc EXCEPT ![p] =
                     [proc[p] EXCEPT !.pc = "unlock",
                                     !.pending = how = "buffered",
                                     !.failed = how = "failed"]]
  /\ UNCHANGED << vars, arg, called, max_log_files, dir, appends >>
  /\ UNCHANGED toolvars

\* finally: fcntl.flock(f.fileno(), LOCK_UN)
Unlock(p) ==
  /\ proc[p].pc = "unlock"
  /\ inodes' = [inodes EXCEPT ![proc[p].fd].lock = 0]
  /\ proc' = [proc EXCEPT ![p].pc = "close"]
  /\ UNCHANGED << vars, arg, called, max_log_files, dir, appends >>
  /\ UNCHANGED toolvars

\* the end of the with block: close() writes what the buffer holds to the
\* file, or fails to; an exception of f.write or of close() goes on to the
\* except clause
Close(p) ==
  /\ proc[p].pc = "close"
  /\ \E ok \in IF proc[p].pending THEN BOOLEAN ELSE {~proc[p].failed} :
       /\ inodes' = IF ok /\ proc[p].pending THEN Appended(p) ELSE inodes
       /\ proc' = [proc EXCEPT ![p] =
                     [proc[p] EXCEPT !.pc = IF ok THEN "chmod" ELSE "except",
                                     !.pending = FALSE, !.failed = ~ok, !.fd = 0]]
  /\ UNCHANGED << vars, arg, called, max_log_files, dir, appends >>
  /\ UNCHANGED toolvars

\* a chmod that changes nothing
NotChmodded(files, n) == files

\* the files after os.chmod(log_path, 0o640) on the file n
Chmodded(files, n) == [files EXCEPT ![n].mode = Mode0640]

\* os.chmod(log_path, 0o640), on the file that has the name security.log
\* now, and return True: the OSError of a file that is gone is passed over
Chmod(p) ==
  /\ proc[p].pc = "chmod"
  /\ IF Exists(0)
       THEN /\ inodes' = Chmodded(inodes, dir[0])
            /\ proc' = [proc EXCEPT ![p] = [proc[p] EXCEPT !.pc = "idle", !.result = "True"]]
       ELSE /\ proc' = [proc EXCEPT ![p] =
                          HandleOSError([proc[p] EXCEPT !.pc = "idle", !.result = "True"])]
            /\ UNCHANGED inodes
  /\ UNCHANGED << vars, arg, called, max_log_files, dir, appends >>
  /\ UNCHANGED toolvars

\* except Exception: return False
Except(p) ==
  /\ proc[p].pc = "except"
  /\ proc' = [proc EXCEPT ![p] = [proc[p] EXCEPT !.pc = "idle", !.result = "False"]]
  /\ UNCHANGED << vars, arg, called, max_log_files, dir, inodes, appends >>
  /\ UNCHANGED toolvars

NextLog ==
  \E p \in Procs :
    \/ StartAppend(p)
    \/ Stat(p)
    \/ LoopExists(p)
    \/ Shift(p)
    \/ Rename(p)
    \/ ExistsLog(p)
    \/ Create(p)
    \/ Open(p)
    \/ LockWrite(p)
    \/ Unlock(p)
    \/ Close(p)
    \/ Chmod(p)
    \/ Except(p)

SpecLog == InitLog /\ [][NextLog]_<<vars, logvars>>

\* process p is the only one that has called log_security_event
SingleWriter(p) == \A q \in Procs \ {p} : proc[q] = NoCall

\* the number of rotated files security.log.N
RotatedFiles == Cardinality({k \in 1..MaxGen : Exists(k)})

\* the entry of the call process p is in, or has made, is in the file inode
EntryIn(p, inode) ==
  \E k \in 1..Len(inodes[inode].lines) :
    inodes[inode].lines[k].by = p /\ inodes[inode].lines[k].no = proc[p].line

\* the rotated files are in increasing age order by suffix: of two files the
\* one with the higher suffix was created first
AgeOrdered ==
  \A i, j \in Gens : (i < j /\ Exists(i) /\ Exists(j)) => dir[i] > dir[j]

\* the suffix of the generation a rotation deletes
Oldest == IF max_log_files - 1 >= 1 THEN max_log_files - 1 ELSE 1

\* the directory b with every generation shifted by one
Generations(b) ==
  [k \in Gens |-> IF k = 0 THEN 0
                  ELSE IF k = 1 THEN b[0]
                  ELSE IF k <= max_log_files - 1 THEN b[k - 1]
                  ELSE b[k]]

\* C11: appends from concurrently running processes to the same file are
\* mutually exclusive: every entry reaches the file while its writer holds
\* the exclusive lock on it, no two processes are writing to the same file at
\* the same time, and a process that has left the with block, on any path
\* (a failed write included), holds no lock.
C11_AppendsMutuallyExclusive ==
  /\ \A n \in 1..Len(inodes) : \A k \in 1..Len(inodes[n].lines) : inodes[n].lines[k].locked
  /\ \A p, q \in DOMAIN proc :
       (p # q /\ proc[p].pending /\ proc[q].pending) => proc[p].fd # proc[q].fd
  /\ \A p \in DOMAIN proc :
       proc[p].pc \in {"idle", "close", "chmod", "except"}
         => \A n \in 1..Len(inodes) : inodes[n].lock # p

\* C12: in any sequence of appends by a single writer, an append that finds
\* security.log at a size >= MAX_LOG_SIZE performs one rotation before its
\* line is written, which is then the first of a fresh security.log, an append
\* that finds it smaller performs none, and the number of rotated files never
\* exceeds MAX_LOG_FILES, for any configured maximum.
C12_RotationBoundary ==
  \A p \in DOMAIN proc :
    SingleWriter(p)
      => /\ (proc[p].pc = "idle" /\ proc[p].result = "True")
              => /\ proc[p].found = "full"
                      => /\ proc[p].rotated
                         /\ Exists(0)
                         /\ Len(inodes[dir[0]].lines) = 1
                         /\ EntryIn(p, dir[0])
                 /\ proc[p].found # "full" => ~proc[p].rotated
         /\ RotatedFiles <= max_log_files

\* C13: a rotation by one process with no filesystem error shifts every
\* generation by one: the old security.log is security.log.1, the old .i is
\* .(i+1) for 1 <= i < MAX_LOG_FILES-1, the old oldest generation is in the
\* directory no more, and every other generation is where it was; and at any
\* point of a sequence of appends the rotated files are in increasing age
\* order by suffix.
C13_RotationShiftsGenerations ==
  \A p \in DOMAIN proc :
    SingleWriter(p)
      => /\ (proc[p].pc = "exists" /\ proc[p].rotated /\ ~proc[p].raced)
              => /\ dir = Generations(proc[p].before)
                 /\ \A k \in Gens :
                      proc[p].before[Oldest] # 0 => dir[k] # proc[p].before[Oldest]
         /\ AgeOrdered

\* with MAX_LOG_FILES = 3 one process has rotated a directory that held
\* security.log, .1, .2 and .3: the old .1 is .2 and the old .3 is where it was
C13_Witness ==
  \E p \in DOMAIN proc :
    /\ SingleWriter(p)
    /\ proc[p].pc = "exists"
    /\ proc[p].rotated
    /\ max_log_files = 3
    /\ \A k \in 0..3 : proc[p].before[k] # 0
    /\ dir[1] = proc[p].before[0]
    /\ dir[2] = proc[p].before[1]
    /\ dir[3] = proc[p].before[3]

\* C14: under any interleaving of the processes, a stat, rename, unlink,
\* create or chmod that fails because another process got there first is
\* caught where it happens: every call that has ended returned True or False,
\* and it returned False only when writing its entry failed, so a lost race
\* never keeps the entry from being written.
C14_RacesNeverRaise ==
  \A p \in DOMAIN proc :
    /\ proc[p].pc \in {"idle", "stat", "loop", "shift", "rename", "exists", "create", "open",
                       "lock", "unlock", "close", "chmod", "except"}
    /\ (proc[p].pc = "idle" /\ proc[p].line > 0) => proc[p].result \in {"True", "False"}
    /\ proc[p].result = "False" => proc[p].failed
    /\ (proc[p].pc = "idle" /\ proc[p].raced /\ ~proc[p].failed)
         => /\ proc[p].result = "True"
            /\ \E n \in 1..Len(inodes) : EntryIn(p, n)

\* a process whose rename lost the race with another process has written its
\* entry and returned True
C14_Witness ==
  \E p \in DOMAIN proc :
    /\ ~SingleWriter(p)
    /\ proc[p].pc = "idle"
    /\ proc[p].found = "full"
    /\ ~proc[p].rotated
    /\ proc[p].raced
    /\ proc[p].result = "True"

(***************************************************************************)
(* The failure paths of main                                               *)
(***************************************************************************)
\* the entries of the audit log for this event kind at this severity
EventsAt(event, severity) ==
  {i \in 1..Len(auditLog) :
     Contains(auditLog[i], <<" ","|"," ">> \o severity \o <<" ","|"," ">> \o event \o <<" ","|"," ">>)}

\* the entries of the audit log for this event kind, at any severity
EventsOf(event) ==
  {i \in 1..Len(auditLog) : Contains(auditLog[i], <<" ","|"," ">> \o event \o <<" ","|"," ","w","o","r","k","e","r","=">>)}

\* the run timed out: the alarm fired before the try block had printed, or the
\* join returned on the elapsed deadline
TimedOut == FiredBeforeResponse \/ thread.deadline_elapsed

\* the one response of the run is a deny whose reason holds this text
DeniedWith(text) ==
  /\ Len(stdout) = 1
  /\ stdout[1].permissionDecision = "deny"
  /\ Contains(stdout[1].permissionDecisionReason, text)

\* one event of this kind is in the audit log, and it is at this severity
AuditedOnceAt(event, severity) ==
  /\ Cardinality(EventsOf(event)) = 1
  /\ Cardinality(EventsAt(event, severity)) = 1

\* C21: every infrastructure failure is answered with a deny and audited once
\* at its severity (the audit log working): unparseable stdin with a reason
\* that names invalid JSON and one HOOK_ERROR at ERROR, an unexpected
\* exception of the pipeline with the generic fail-closed reason and one
\* HOOK_ERROR at ERROR, a timeout with one HOOK_TIMEOUT at WARN; no such run
\* answers approve.
C21_FailuresDeniedAndAudited ==
  (pc = "done" /\ audit_import # "ValueError")
    => /\ ~stdin.valid
            => /\ OnlyDenied
               /\ ~TimedOut
                    => /\ DeniedWith(<<"r","e","c","e","i","v","e","d"," ","i","n","v","a","l","i","d"," ","J","S","O","N"," ","(","f","a","i","l","-","c","l","o","s","e","d",")">>)
                       /\ AuditWorks => AuditedOnceAt(<<"H","O","O","K","_","E","R","R","O","R">>, <<"E","R","R","O","R">>)
       /\ (stdin.valid /\ check_file_access(fs, SECURITY_AUDIT_AVAILABLE, stdin.data).raised # NoExc)
            => /\ OnlyDenied
               /\ ~TimedOut
                    => /\ DeniedWith(<<"e","n","c","o","u","n","t","e","r","e","d"," ","a","n"," ","e","r","r","o","r"," ","(","f","a","i","l","-","c","l","o","s","e","d",")">>)
                       /\ AuditWorks => AuditedOnceAt(<<"H","O","O","K","_","E","R","R","O","R">>, <<"E","R","R","O","R">>)
       /\ TimedOut
            => /\ OnlyDenied
               /\ AuditWorks => AuditedOnceAt(<<"H","O","O","K","_","T","I","M","E","O","U","T">>, <<"W","A","R","N">>)

\* the exception the except clauses of main were entered with: that of
\* json.load or of check_file_access, in main or kept by the worker
Failed ==
  IF ~stdin.valid THEN JSONDecodeError
  ELSE check_file_access(fs, SECURITY_AUDIT_AVAILABLE, stdin.data).raised

\* the exception a run on the request d fails with
FailureOf(d) == check_file_access(fs, SECURITY_AUDIT_AVAILABLE, d).raised

\* C22: the reason of an infrastructure-failure denial does not depend on the
\* message of the exception: the run and any run that fails with an exception
\* of the same type and another message give the same
\* permissionDecisionReason, and the reason holds no file path and no stack
\* trace.
C22_ReasonIndependentOfMessage ==
  (pc = "done" /\ audit_import # "ValueError" /\ alarm # "fired" /\ ~thread.timed_out
     /\ Failed # NoExc)
    => /\ Len(stdout) = 1
       /\ \A d \in MainRequests :
            FailureOf(d).type = Failed.type
              => stdout[1].permissionDecisionReason = HandlerReason(FailureOf(d))
       /\ ~Contains(stdout[1].permissionDecisionReason, <<"/">>)
       /\ ~Contains(stdout[1].permissionDecisionReason, <<"T","r","a","c","e","b","a","c","k">>)

(***************************************************************************)
(* The permissions of security.log                                         *)
(***************************************************************************)
\* this step is the return True of the call process p is in
ReturnsTrue(p) == proc[p].pc = "chmod" /\ proc'[p].pc = "idle"

\* after this step security.log is there and has mode 0640
LogHasMode0640 == dir'[0] # 0 /\ inodes'[dir'[0]].mode = Mode0640

C24_AlarmDisarmedOnExit ==
  platform = "unix"
    => /\ pc \in {"parse", "check", "audit", "print", "exit", "h_audit", "h_print",
                  "h_exit", "finally"} => alarm # "unset"
       /\ (pc = "done" /\ audit_import # "ValueError") => alarm \in {"cancelled", "fired"}

\* main was left after the except clause for invalid JSON had answered, and
\* the alarm it had armed is cancelled
C24_Witness ==
  /\ platform = "unix"
  /\ pc = "done"
  /\ ~stdin.valid
  /\ Len(stdout) = 1
  /\ alarm = "cancelled"

(***************************************************************************)
(* The audit events of one request                                         *)
(***************************************************************************)
\* the reason the classifier gives for the candidate of the request
ClassifierReason == Classify(fs, SECURITY_AUDIT_AVAILABLE, ReqTool, Candidate).reason

FormsKnown ==
  /\ stdin.data.t = "dict"
  /\ ReqTool \in GatedTools
  /\ ReqInput.t = "dict"
  /\ Resolves(Candidate)

WritesEntry(p) ==
  /\ proc[p].pc \in {"lock", "close"}
  /\ Len(inodes'[proc[p].fd].lines) = Len(inodes[proc[p].fd].lines) + 1

\* C27: the line of a call that returns True is written to the file that has
\* the name security.log at the moment of the write, not to a generation
\* another process has rotated away between the open and the write of this
\* process, under any interleaving.
C27_LineInCurrentLog ==
  [][\A p \in Procs : WritesEntry(p) => dir[0] = proc[p].fd]_<<vars, logvars>>

\* no process is between the size test and the end of the rotation it decided on
NoneRotating(p) ==
  \A q \in Procs \ {p} : proc[q].pc \notin {"loop", "shift", "rename"}

\* C28: when several processes append while security.log is at or above
\* MAX_LOG_SIZE, the one threshold crossing causes one rotation in total:
\* once the processes that found the file full are past their rotation, the
\* generations are those the first of them found, shifted by one (none but
\* the oldest is deleted or overwritten, and no line written before the
\* rotation is lost), and no file smaller than MAX_LOG_SIZE is a generation.
C28_OneRotationPerCrossing ==
  /\ \A p \in DOMAIN proc :
       (proc[p].pc = "exists" /\ proc[p].found = "full" /\ NoneRotating(p))
         => \A k \in 1..MaxGen : dir[k] = Generations(proc[p].before)[k]
  /\ \A k \in 1..MaxGen : Exists(k) => Len(inodes[dir[k]].lines) >= MAX_LOG_SIZE

(***************************************************************************)
(* SpecRecent: security_audit.py, MONITORING HELPERS. One call of          *)
(* get_recent_security_events on a security.log.                           *)
(***************************************************************************)
\* the most lines security.log holds
MaxLines == 3

\* the highest count asked for
MaxCount == 4

\* the lines of a security.log, each as readlines() gives it
LogLines ==
  { LogEntry(audit_hook_deny(<<"R","e","a","d">>, <<"/","u","/",".","e","n","v">>, <<>>)),
    LogEntry(audit_hook_error(<<"f","i","l","e","_","a","c","c","e","s","s">>, <<"b","o","o","m">>)),
    LogEntry(audit_hook_timeout(<<"f","i","l","e","_","a","c","c","e","s","s">>, HOOK_TIMEOUT)) }

\* the values of severity_filter and of event_filter
SeverityFilters == {PyNone, Str(<<>>), Str(<<"W","A","R","N">>), Str(<<"E","R","R","O","R">>)}

EventFilters == {PyNone, Str(<<"H","O","O","K","_","D","E","N","Y">>), Str(<<"H","O","O","K","_","T","I","M","E","O","U","T">>)}

\* the file at the path of the log: missing, there and unreadable, or there
\* with these lines
LogFiles ==
  { [exists |-> FALSE, readable |-> FALSE, lines |-> <<>>],
    [exists |-> TRUE, readable |-> FALSE, lines |-> <<>>] }
  \cup { [exists |-> TRUE, readable |-> TRUE, lines |-> ls] :
           ls \in UNION {[1..n -> LogLines] : n \in 0..MaxLines} }

InitRecent ==
  /\ HookUnused
  /\ arg = <<>>
  /\ called = NotCalled
  /\ max_log_files = 0
  /\ dir = <<>>
  /\ inodes = <<>>
  /\ proc = <<>>
  /\ appends = 0
  /\ graph = <<>>
  /\ \E log \in LogFiles, count \in 0..MaxCount, severity_filter \in SeverityFilters,
        event_filter \in EventFilters :
       monitor = [log |-> log, count |-> count, severity_filter |-> severity_filter,
                  event_filter |-> event_filter, pc |-> "call", result |-> <<>>]

\* the characters str.strip() removes
Whitespace == {" ", "\t", "\n", "\r"}

RECURSIVE strip(_)
\* str.strip()
strip(s) ==
  IF s = <<>> THEN s
  ELSE IF Head(s) \in Whitespace THEN strip(Tail(s))
  ELSE IF s[Len(s)] \in Whitespace THEN strip(SubSeq(s, 1, Len(s) - 1))
  ELSE s

\* "if filter and f'| {filter} |' not in line: continue" lets the line pass
PassesFilter(filter, line) ==
  ~Truthy(filter) \/ Contains(line, <<"|"," ">> \o filter.v \o <<" ","|">>)

RECURSIVE Filtered(_, _, _)
\* the loop over lines: the stripped lines that pass both filters, in order
Filtered(lines, severity_filter, event_filter) ==
  IF lines = <<>> THEN <<>>
  ELSE (IF PassesFilter(severity_filter, lines[1]) /\ PassesFilter(event_filter, lines[1])
          THEN <<strip(lines[1])>> ELSE <<>>)
       \o Filtered(Tail(lines), severity_filter, event_filter)

\* s[start:] for a list s
SliceFrom(s, start) ==
  IF start < 0
    THEN SubSeq(s, (IF Len(s) + start > 0 THEN Len(s) + start ELSE 0) + 1, Len(s))
    ELSE SubSeq(s, (IF start < Len(s) THEN start ELSE Len(s)) + 1, Len(s))

\* s[::-1]
Reversed(s) == [i \in 1..Len(s) |-> s[Len(s) + 1 - i]]

\* get_recent_security_events(count, severity_filter, event_filter) where the
\* file at the path of the log is log
get_recent_security_events(log, count, severity_filter, event_filter) ==
  IF ~log.exists THEN <<>>
  ELSE IF ~log.readable THEN <<>>
  ELSE Reversed(SliceFrom(Filtered(log.lines, severity_filter, event_filter), 0 - count))

\* one call of get_recent_security_events
GetRecentSecurityEvents ==
  /\ monitor # <<>>
  /\ monitor.pc = "call"
  /\ monitor' = [monitor EXCEPT
       !.pc = "returned",
       !.result = get_recent_security_events(monitor.log, monitor.count,
                                             monitor.severity_filter, monitor.event_filter)]
  /\ UNCHANGED << vars, arg, called, max_log_files, dir, inodes, proc, appends, graph >>

NextRecent == GetRecentSecurityEvents

SpecRecent == InitRecent /\ [][NextRecent]_<<vars, logvars>>

\* the lines of the log that pass both filters, the most recent first
MostRecentFirst ==
  Reversed(Filtered(monitor.log.lines, monitor.severity_filter, monitor.event_filter))

\* C29: get_recent_security_events returns at most count entries: the count
\* most recent lines of security.log that pass both filters, most recent
\* first (all of them when there are fewer), for every count >= 0 and every
\* content of the log; it returns the empty list when the log does not exist
\* or cannot be read.
C29_RecentEvents ==
  (monitor # <<>> /\ monitor.pc = "returned")
    => /\ Len(monitor.result) <= monitor.count
       /\ (monitor.log.exists /\ monitor.log.readable)
            => monitor.result
                 = SubSeq(MostRecentFirst, 1,
                          IF monitor.count < Len(MostRecentFirst) THEN monitor.count
                          ELSE Len(MostRecentFirst))
       /\ (~monitor.log.exists \/ ~monitor.log.readable) => monitor.result = <<>>

(***************************************************************************)
(* SpecGraph: scripts/validate-handoff-graph.py. One call of               *)
(* AgentHandoffGraph.validate() on a registry whose agents carry           *)
(* handoffs.to lists and nothing else (no handoffs.from, no pipelines, no  *)
(* context_requirements, no statistics).                                   *)
(***************************************************************************)
\* the most entries of one handoffs.to list
MaxHandoffs == 2

\* the names of the agents, in the order the registry lists them; a registry
\* holds the first n of them
AgentNames == <<"a", "b", "c">>

\* the names a handoffs.to entry may carry
TargetNames == {AgentNames[i] : i \in DOMAIN AgentNames}

ToLists == UNION {[1..n -> TargetNames] : n \in 0..MaxHandoffs}

\* registry["agents"]: the dict as the sequence of its items
Registries ==
  UNION { { [i \in 1..n |-> [name |-> AgentNames[i], to |-> tos[i]]] : tos \in [1..n -> ToLists] }
          : n \in 0..Len(AgentNames) }

\* self.agents.keys()
known_agents(agents) == {agents[i].name : i \in DOMAIN agents}

\* agent.get("handoffs", {}).get("to", []) of self.agents[name], the names
\* of its entries
HandoffsTo(agents, name) ==
  LET i == CHOOSE i \in DOMAIN agents : agents[i].name = name IN agents[i].to

ValidationError(severity, rule, agent, about) ==
  [severity |-> severity, rule |-> rule, agent |-> agent, about |-> about]

InitGraph ==
  /\ HookUnused
  /\ arg = <<>>
  /\ called = NotCalled
  /\ max_log_files = 0
  /\ dir = <<>>
  /\ inodes = <<>>
  /\ proc = <<>>
  /\ appends = 0
  /\ monitor = <<>>
  /\ \E agents \in Registries :
       graph = [agents |-> agents, pc |-> "existence", errors |-> <<>>, warnings |-> <<>>,
                visited |-> {}, rec_stack |-> {}, cycles |-> <<>>, next |-> 1,
                stack |-> <<>>, result |-> <<>>]

\* the names _validate_agent_existence never reports
NotAgents == {"any-agent", "chromadb", "user"}

RECURSIVE MissingTargets(_, _, _)
\* the all_agents_exist errors of one agent, in the order of its to list
MissingTargets(agents, name, to) ==
  IF to = <<>> THEN <<>>
  ELSE (IF to[1] \notin NotAgents /\ to[1] \notin known_agents(agents)
          THEN <<ValidationError("high", "all_agents_exist", name, <<to[1]>>)>> ELSE <<>>)
       \o MissingTargets(agents, name, Tail(to))

RECURSIVE UnmatchedTargets(_, _, _)
\* the handoff_contracts_match warnings of one agent: no agent lists a from
UnmatchedTargets(agents, name, to) ==
  IF to = <<>> THEN <<>>
  ELSE (IF to[1] \in known_agents(agents)
          THEN <<ValidationError("medium", "handoff_contracts_match", name, <<to[1]>>)>>
          ELSE <<>>)
       \o UnmatchedTargets(agents, name, Tail(to))

\* for agent_name, agent in self.agents.items(): the findings of each agent,
\* one after the other
OverAgents(findings) == Concat(findings)

\* _validate_agent_existence
ValidateAgentExistence ==
  /\ graph # <<>>
  /\ graph.pc = "existence"
  /\ graph' = [graph EXCEPT !.pc = "contracts",
                            !.errors = @ \o OverAgents([i \in DOMAIN graph.agents |->
                                MissingTargets(graph.agents, graph.agents[i].name,
                                               graph.agents[i].to)])]
  /\ UNCHANGED << vars, arg, called, max_log_files, dir, inodes, proc, appends, monitor >>

\* _validate_handoff_contracts
ValidateHandoffContracts ==
  /\ graph # <<>>
  /\ graph.pc = "contracts"
  /\ graph' = [graph EXCEPT !.pc = "cycles",
                            !.warnings = @ \o OverAgents([i \in DOMAIN graph.agents |->
                                UnmatchedTargets(graph.agents, graph.agents[i].name,
                                                 graph.agents[i].to)])]
  /\ UNCHANGED << vars, arg, called, max_log_files, dir, inodes, proc, appends, monitor >>

\* a dfs call that leaves rec_stack alone
DfsCallOffStack(g, node, path) ==
  [g EXCEPT !.visited = @ \cup {node},
            !.stack = Append(@, [node |-> node, path |-> Append(path, node), j |-> 1])]

\* the call dfs(node, path) up to its loop: visited.add, rec_stack.add,
\* path.append, and a frame for the loop over the to list
DfsCall(g, node, path) ==
  [g EXCEPT !.visited = @ \cup {node},
            !.rec_stack = @ \cup {node},
            !.stack = Append(@, [node |-> node, path |-> Append(path, node), j |-> 1])]

\* neighbor in rec_stack
InRecStack(rec_stack, neighbor) == neighbor \in rec_stack

\* path.index(neighbor)
Index(path, x) ==
  CHOOSE i \in DOMAIN path : path[i] = x /\ \A k \in 1..(i - 1) : path[k] # x

\* path[cycle_start:] + [neighbor]
CycleOf(path, neighbor) == Append(SubSeq(path, Index(path, neighbor), Len(path)), neighbor)

\* the frame of the dfs call that is running
Top(g) == g.stack[Len(g.stack)]

\* for agent_name in self.agents: if agent_name not in visited: dfs(agent_name, [])
NextAgent ==
  /\ graph # <<>>
  /\ graph.pc = "cycles"
  /\ graph.stack = <<>>
  /\ graph.next <= Len(graph.agents)
  /\ graph' = IF graph.agents[graph.next].name \notin graph.visited
                THEN DfsCall([graph EXCEPT !.next = @ + 1], graph.agents[graph.next].name, <<>>)
                ELSE [graph EXCEPT !.next = @ + 1]
  /\ UNCHANGED << vars, arg, called, max_log_files, dir, inodes, proc, appends, monitor >>

\* one round of "for handoff in agent.get('handoffs', {}).get('to', [])"
DfsNeighbor ==
  /\ graph # <<>>
  /\ graph.pc = "cycles"
  /\ graph.stack # <<>>
  /\ Top(graph).j <= Len(HandoffsTo(graph.agents, Top(graph).node))
  /\ \E neighbor \in {HandoffsTo(graph.agents, Top(graph).node)[Top(graph).j]} :
     \E g \in {[graph EXCEPT !.stack[Len(graph.stack)].j = @ + 1]} :
       graph' = IF neighbor \notin known_agents(graph.agents) THEN g
                ELSE IF neighbor \notin graph.visited THEN DfsCall(g, neighbor, Top(graph).path)
                ELSE IF InRecStack(graph.rec_stack, neighbor)
                  THEN [g EXCEPT !.cycles = Append(@, CycleOf(Top(graph).path, neighbor))]
                ELSE g
  /\ UNCHANGED << vars, arg, called, max_log_files, dir, inodes, proc, appends, monitor >>

\* the end of a dfs call: rec_stack.remove(node)
DfsReturn ==
  /\ graph # <<>>
  /\ graph.pc = "cycles"
  /\ graph.stack # <<>>
  /\ Top(graph).j > Len(HandoffsTo(graph.agents, Top(graph).node))
  /\ graph' = [graph EXCEPT !.rec_stack = @ \ {Top(graph).node},
                            !.stack = SubSeq(@, 1, Len(@) - 1)]
  /\ UNCHANGED << vars, arg, called, max_log_files, dir, inodes, proc, appends, monitor >>

\* one no_cycles error for each cycle found
CycleErrors(cycles) ==
  [i \in DOMAIN cycles |-> ValidationError("critical", "no_cycles", "None", cycles[i])]

\* the end of _validate_no_cycles: "if cycles: for cycle in cycles"
RecordCycles ==
  /\ graph # <<>>
  /\ graph.pc = "cycles"
  /\ graph.stack = <<>>
  /\ graph.next > Len(graph.agents)
  /\ graph' = [graph EXCEPT !.pc = "reachability", !.errors = @ \o CycleErrors(graph.cycles)]
  /\ UNCHANGED << vars, arg, called, max_log_files, dir, inodes, proc, appends, monitor >>

\* orphaned: in no pipeline (there is none) and with no handoffs.to or from
Orphaned(agents) == {agents[i].name : i \in {k \in DOMAIN agents : agents[k].to = <<>>}}

\* the orders in which "for agent in orphaned" may go over the set
Orders(S) == {o \in [1..Cardinality(S) -> S] : \A x \in S : \E i \in DOMAIN o : o[i] = x}

\* _validate_reachability: the status of every agent is the default, active
ValidateReachability ==
  /\ graph # <<>>
  /\ graph.pc = "reachability"
  /\ \E order \in Orders(Orphaned(graph.agents)) :
       graph' = [graph EXCEPT
         !.pc = "rest",
         !.warnings = @ \o [i \in DOMAIN order |->
                             ValidationError("medium", "all_agents_reachable", order[i], <<>>)]]
  /\ UNCHANGED << vars, arg, called, max_log_files, dir, inodes, proc, appends, monitor >>

\* any(e.severity == "critical" for e in self.errors)
has_critical(errors) == \E i \in DOMAIN errors : errors[i].severity = "critical"

\* _validate_context_requirements, _validate_cost_anomalies and
\* _validate_documentation find nothing in a registry with no handoffs.from
\* and no pipelines; then validate returns
ValidateReturn ==
  /\ graph # <<>>
  /\ graph.pc = "rest"
  /\ graph' = [graph EXCEPT
       !.pc = "returned",
       !.result = <<[is_valid |-> ~has_critical(graph.errors),
                     findings |-> graph.errors \o graph.warnings]>>]
  /\ UNCHANGED << vars, arg, called, max_log_files, dir, inodes, proc, appends, monitor >>

NextGraph ==
  \/ ValidateAgentExistence
  \/ ValidateHandoffContracts
  \/ NextAgent
  \/ DfsNeighbor
  \/ DfsReturn
  \/ RecordCycles
  \/ ValidateReachability
  \/ ValidateReturn

\* the interpreter runs the one thread of the script as long as it has a
\* statement to run
SpecGraph ==
  InitGraph /\ [][NextGraph]_<<vars, logvars>> /\ WF_<<vars, logvars>>(NextGraph)

\* the handoffs.to edges between registered agents
Edges(agents) ==
  {e \in known_agents(agents) \X known_agents(agents) :
     \E j \in DOMAIN HandoffsTo(agents, e[1]) : HandoffsTo(agents, e[1])[j] = e[2]}

RECURSIVE ReachedIn(_, _, _)
\* the agents reached from the set S by n edges or fewer, S included
ReachedIn(agents, S, n) ==
  IF n = 0 THEN S
  ELSE ReachedIn(agents, S \cup {e[2] : e \in {d \in Edges(agents) : d[1] \in S}}, n - 1)

\* some agent is reached from itself by one edge or more
HasCycle(agents) ==
  \E e \in Edges(agents) : e[1] \in ReachedIn(agents, {e[2]}, Len(agents))

ValidateReturned == graph # <<>> /\ graph.pc = "returned"

NoCyclesRecorded ==
  \E i \in DOMAIN graph.errors :
    graph.errors[i].severity = "critical" /\ graph.errors[i].rule = "no_cycles"

\* C30: validate() records a critical no_cycles error, and so returns
\* is_valid = False, exactly when the handoffs.to edges between registered
\* agents hold a cycle, a self-loop included; edges to unregistered names
\* count for nothing; and on every registry the depth-first search ends and
\* validate returns.
C30_CriticalIffCycle ==
  /\ [](ValidateReturned
          => /\ NoCyclesRecorded <=> HasCycle(graph.agents)
             /\ graph.result[1].is_valid <=> ~HasCycle(graph.agents)
             /\ graph.stack = <<>> /\ graph.rec_stack = {})
  /\ <>ValidateReturned

\* validate has returned is_valid = False on a registry whose registered
\* agents form a cycle and which also has an edge to an unregistered name
C30_Witness ==
  /\ ValidateReturned
  /\ HasCycle(graph.agents)
  /\ ~graph.result[1].is_valid
  /\ \E i \in DOMAIN graph.agents : \E j \in DOMAIN graph.agents[i].to :
       graph.agents[i].to[j] \notin known_agents(graph.agents)
====
